---- MODULE Spec2Model ----
(***************************************************************************)
(* State-machine model of the NeuroSmriti risk-detection services:         *)
(*   GPSWanderingService, FallDetectionService, ActivityMonitoringService  *)
(*   (backend/app/services/safety_monitoring_service.py), GaitAnalyzer,    *)
(*   SleepAnalyzer and EyeTrackingAnalyzer                                 *)
(*   (backend/app/services/behavioral_analysis_service.py), two helpers of *)
(*   SpeechAnalysisService (backend/app/services/                          *)
(*   speech_analysis_service.py) and the comprehensive assessment endpoint *)
(*   (backend/app/api/v1/advanced_features.py).                            *)
(*                                                                         *)
(* Every service method is one action that performs the whole method.  A   *)
(* call records its arguments in x_call and its outcome in x_result;       *)
(* the caller then takes the response (a Respond action) before the next   *)
(* call to that service is issued, so x_call and x_result always describe  *)
(* the most recent call and the service state right after it.              *)
(*                                                                         *)
(* Units.  Latitudes and longitudes are integers in 1e-4 degree.           *)
(* Distances and radii are centimetres.  Times of day are seconds since    *)
(* midnight.  Accelerations are cm/s^2.  Dates are whole days.             *)
(***************************************************************************)
EXTENDS Integers, Sequences, FiniteSets, TLC

VARIABLES
    safe_zones,          \* GPSWanderingService.safe_zones: patient -> list of zones
    location_history,    \* GPSWanderingService.location_history: patient -> list of fixes
    wandering_alerts,    \* GPSWanderingService.wandering_alerts: list of alerts
    gps_call,            \* arguments of the last GPS service call
    gps_result,          \* outcome of the last GPS service call
    fall_history,        \* FallDetectionService.fall_history: list of alerts
    fall_call,           \* arguments of the last fall-detection call
    fall_result,         \* outcome of the last fall-detection call
    activity_patterns,   \* ActivityMonitoringService.activity_patterns: patient -> list
    baseline_patterns,   \* ActivityMonitoringService.baseline_patterns: dict patient -> baseline
    now,                 \* datetime.now(), in whole days
    act_call,            \* arguments of the last activity-monitoring call
    act_result,          \* outcome of the last activity-monitoring call
    adv_call,            \* arguments of the last call of an analysis endpoint
    adv_result,          \* outcome of the last call of an analysis endpoint
    handlers             \* activity requests on the event loop: request -> coroutine state

gps_vars == <<safe_zones, location_history, wandering_alerts, gps_call, gps_result>>
fall_vars == <<fall_history, fall_call, fall_result>>

act_vars == <<activity_patterns, baseline_patterns, now, act_call, act_result>>

adv_vars == <<adv_call, adv_result>>

\* the state of the other services, which a service's methods never touch
not_gps_vars == <<fall_vars, act_vars, adv_vars, handlers>>
not_fall_vars == <<gps_vars, act_vars, adv_vars, handlers>>
not_act_vars == <<gps_vars, fall_vars, adv_vars, handlers>>
not_adv_vars == <<gps_vars, fall_vars, act_vars, handlers>>

vars == <<safe_zones, location_history, wandering_alerts, gps_call, gps_result,
          fall_history, fall_call, fall_result,
          activity_patterns, baseline_patterns, now, act_call, act_result,
          adv_call, adv_result, handlers>>

----------------------------------------------------------------------------
(* Bounds and input alphabets                                              *)

Patients == {1, 2}

MaxZones == 2      \* safe zones created in a run (all patients together)
MaxChecks == 2     \* location checks in a run (all patients together)
MaxFalls == 2      \* fall alerts recorded in a run
MaxBatch == 4      \* samples in one accelerometer batch
MaxEvents == 2     \* activity events logged in a run (all patients together)
MaxDay == 1        \* days the clock advances in a run
MaxGaitBatch == 4  \* samples in one gait batch
MaxSessions == 2   \* nights in one sleep request
MaxRequests == 4   \* activity requests in flight on the event loop
MaxGazeEvents == 2 \* fixations, and saccades, in one eye-tracking request
MaxStepBatch == 5  \* samples in one gait batch of the step-detection runs
MaxWords == 22     \* words in one transcript
MaxClock == 30     \* days the clock advances in a run of the baseline runs

NoCall == [op |-> "none"]
NoResult == [kind |-> "none"]

\* Generic helpers ---------------------------------------------------------
Abs(n) == IF n < 0 THEN -n ELSE n

RECURSIVE SeqSum(_)
SeqSum(s) == IF s = <<>> THEN 0 ELSE Head(s) + SeqSum(Tail(s))

RECURSIVE SeqMax(_)
SeqMax(s) == IF Len(s) = 1 THEN s[1]
             ELSE LET m == SeqMax(Tail(s)) IN IF s[1] >= m THEN s[1] ELSE m

----------------------------------------------------------------------------
(* GPSWanderingService                                                     *)

\* degrees and ten-thousandths of a degree; metres
Deg(d, f) == d * 10000 + f
Metres(m) == m * 100

HomeLat == Deg(40, 0)          \* 40.0000 N, the zone centre of the spec's scenarios
NearLat == Deg(40, 9)          \* 40.0009 N, about 100 m north of HomeLat
FarLat == Deg(40, 100)         \* 40.0100 N, about 1112 m north of HomeLat
BadLat == Deg(95, 0)           \* 95.0000: not a latitude
MeridianLon == -Deg(73, 0)     \* 73.0000 W

CmPerLatUnit == 1112       \* R * pi/180 * 1e-4 with R = 6371000 m: 11.12 m per 1e-4 degree

\* faulty variant: a distance that is 200 m too long
CalculateDistanceTooLong(lat1, lon1, lat2, lon2) ==
    Abs(lat2 - lat1) * CmPerLatUnit + Metres(200)

\* _calculate_distance: the haversine formula.  For two points of one
\* meridian (lon1 = lon2) it reduces to R * |lat2 - lat1| in radians: then
\* a = sin^2(dphi/2) and c = 2*atan2(sqrt(a), sqrt(1-a)) = |dphi|.  All fixes
\* and centres of this model lie on MeridianLon.
CalculateDistance(lat1, lon1, lat2, lon2) ==
    Abs(lat2 - lat1) * CmPerLatUnit

\* datetime.strptime(s, "%H:%M").time() of the text "HH:MM", given as <<HH, MM>>
ParseHM(hm) == hm[1] * 3600 + hm[2] * 60

DefaultActiveTimes == << [start |-> <<0, 0>>, end |-> <<23, 59>>] >>
DayActiveTimes == << [start |-> <<8, 0>>, end |-> <<20, 0>>] >>
NightActiveTimes == << [start |-> <<22, 0>>, end |-> <<6, 0>>] >>

\* faulty variant: a window whose start is later than its end is read as one
\* that runs over midnight
IsTimeActiveOverMidnight(zone, current_time) ==
    \E k \in DOMAIN zone.active_times :
        LET start == ParseHM(zone.active_times[k].start)
            end == ParseHM(zone.active_times[k].end)
        IN  IF start <= end THEN start <= current_time /\ current_time <= end
            ELSE start <= current_time \/ current_time <= end

\* the inner loop over zone["active_times"]
IsTimeActive(zone, current_time) ==
    \E k \in DOMAIN zone.active_times :
        /\ ParseHM(zone.active_times[k].start) <= current_time
        /\ current_time <= ParseHM(zone.active_times[k].end)

\* faulty variant: the loop without its break: the last active zone decides
RECURSIVE ScanZonesLastWins(_, _, _, _, _, _)
ScanZonesLastWins(zones, i, active, latitude, longitude, current_time) ==
    IF i > Len(zones) THEN [inside_safe_zone |-> FALSE, active_zones |-> active]
    ELSE LET zone == zones[i]
             rest == ScanZonesLastWins(zones, i + 1,
                        IF zone.enabled /\ IsTimeActive(zone, current_time)
                        THEN Append(active, zone.name) ELSE active,
                        latitude, longitude, current_time)
         IN
         IF zone.enabled /\ IsTimeActive(zone, current_time)
            /\ \A j \in (i + 1)..Len(zones) :
                   ~(zones[j].enabled /\ IsTimeActive(zones[j], current_time))
         THEN [rest EXCEPT !.inside_safe_zone =
                  CalculateDistance(latitude, longitude, zone.center.latitude,
                                    zone.center.longitude) <= zone.radius_meters]
         ELSE rest

\* The loop "for zone in zones" of check_location from index i on, with the
\* names of the active zones seen so far; it stops at the first active zone
\* that contains the fix.
RECURSIVE ScanZones(_, _, _, _, _, _)
ScanZones(zones, i, active, latitude, longitude, current_time) ==
    IF i > Len(zones) THEN [inside_safe_zone |-> FALSE, active_zones |-> active]
    ELSE LET zone == zones[i] IN
         IF ~zone.enabled
         THEN ScanZones(zones, i + 1, active, latitude, longitude, current_time)
         ELSE IF ~IsTimeActive(zone, current_time)
         THEN ScanZones(zones, i + 1, active, latitude, longitude, current_time)
         ELSE IF CalculateDistance(latitude, longitude,
                                   zone.center.latitude, zone.center.longitude)
                     <= zone.radius_meters
         THEN [inside_safe_zone |-> TRUE, active_zones |-> Append(active, zone.name)]
         ELSE ScanZones(zones, i + 1, Append(active, zone.name),
                        latitude, longitude, current_time)

\* faulty variant: the alert condition without "and active_zones"
AlertNeededIgnoringActive(scan) == ~scan.inside_safe_zone

\* faulty variant: the alert is held back until a combined assessment has
\* rated the risk high
AlertNeededAfterAssessment(scan) ==
    /\ ~scan.inside_safe_zone
    /\ scan.active_zones # <<>>
    /\ adv_result.kind = "assessment"
    /\ adv_result.risk_level = "high"

\* "if not inside_safe_zone and active_zones"
AlertNeeded(scan) == ~scan.inside_safe_zone /\ scan.active_zones # <<>>

\* number of zones stored for all patients
RECURSIVE ZoneCount(_)
ZoneCount(ps) ==
    IF ps = {} THEN 0
    ELSE LET p == CHOOSE q \in ps : TRUE
         IN Len(safe_zones[p]) + ZoneCount(ps \ {p})

RECURSIVE FixCount(_)
FixCount(ps) ==
    IF ps = {} THEN 0
    ELSE LET p == CHOOSE q \in ps : TRUE
         IN Len(location_history[p]) + FixCount(ps \ {p})

\* secrets.token_urlsafe: a fresh identifier
NewZoneId == ZoneCount(Patients) + 1
NewAlertId == Len(wandering_alerts) + 1

\* the dict stored by create_safe_zone (created_at, the wall-clock time of
\* creation, is read nowhere and left out)
ZoneData(patient_id, zone_name, center_lat, center_lon, radius_meters, active_times) ==
    [zone_id |-> NewZoneId,
     patient_id |-> patient_id,
     name |-> zone_name,
     center |-> [latitude |-> center_lat, longitude |-> center_lon],
     radius_meters |-> radius_meters,
     active_times |-> IF active_times = <<>> THEN DefaultActiveTimes ELSE active_times,
     enabled |-> TRUE]

CreateSafeZone(patient_id, zone_name, center_lat, center_lon, radius_meters, active_times) ==
    /\ gps_call = NoCall
    /\ ZoneCount(Patients) < MaxZones
    /\ safe_zones' = [safe_zones EXCEPT ![patient_id] =
            Append(@, ZoneData(patient_id, zone_name, center_lat, center_lon,
                               radius_meters, active_times))]
    /\ gps_call' = [op |-> "create_safe_zone", patient_id |-> patient_id,
                    zone_name |-> zone_name, center_lat |-> center_lat,
                    center_lon |-> center_lon, radius_meters |-> radius_meters,
                    active_times |-> active_times]
    /\ gps_result' = [kind |-> "zone", zone_id |-> NewZoneId, zone_name |-> zone_name,
                      radius_meters |-> radius_meters, status |-> "active"]
    /\ UNCHANGED <<location_history, wandering_alerts>>
    /\ UNCHANGED not_gps_vars

\* faulty variant: the new alert replaces the history
RecordAlertOverwriting(history, alert) == <<alert>>

\* self.wandering_alerts.append(alert) / self.fall_history.append(alert)
RecordAlert(history, alert) == Append(history, alert)

\* the alert built by _trigger_wandering_alert
WanderingAlert(patient_id, latitude, longitude, timestamp) ==
    [alert_id |-> NewAlertId,
     patient_id |-> patient_id,
     alert_type |-> "wandering",
     location |-> [latitude |-> latitude, longitude |-> longitude],
     timestamp |-> timestamp,
     status |-> "active",
     severity |-> "high"]

CheckLocation(patient_id, latitude, longitude, timestamp) ==
    LET scan == ScanZones(safe_zones[patient_id], 1, <<>>, latitude, longitude, timestamp)
        alert == WanderingAlert(patient_id, latitude, longitude, timestamp)
        result == [kind |-> "check",
                   patient_id |-> patient_id,
                   location |-> [latitude |-> latitude, longitude |-> longitude],
                   timestamp |-> timestamp,
                   inside_safe_zone |-> scan.inside_safe_zone,
                   active_zones |-> scan.active_zones,
                   alert_triggered |-> AlertNeeded(scan)]
    IN
    /\ gps_call = NoCall
    /\ FixCount(Patients) < MaxChecks
    /\ location_history' = [location_history EXCEPT ![patient_id] =
            Append(@, [latitude |-> latitude, longitude |-> longitude,
                       timestamp |-> timestamp])]
    /\ wandering_alerts' = IF AlertNeeded(scan) THEN RecordAlert(wandering_alerts, alert)
                           ELSE wandering_alerts
    /\ gps_call' = [op |-> "check_location", patient_id |-> patient_id,
                    latitude |-> latitude, longitude |-> longitude,
                    timestamp |-> timestamp]
    /\ gps_result' = IF AlertNeeded(scan)
                     THEN [result EXCEPT !.alert_triggered = TRUE] @@ [alert |-> alert]
                     ELSE result
    /\ UNCHANGED safe_zones
    /\ UNCHANGED not_gps_vars

\* the endpoint hands the result to its caller
RespondGPS ==
    /\ gps_call # NoCall
    /\ gps_call' = NoCall
    /\ gps_result' = NoResult
    /\ UNCHANGED <<safe_zones, location_history, wandering_alerts>>
    /\ UNCHANGED not_gps_vars

----------------------------------------------------------------------------
(* FallDetectionService                                                    *)

G == 981                   \* 9.81 m/s^2
FallThresholdTenthsG == 25 \* self.fall_threshold = 2.5 (g)
LowMovementTenthsG == 15   \* 1.5 (g)
\* faulty variant: a confidence above the emergency-call threshold
FallConfidenceAboveAutoCall == 85 + 10
FallConfidencePct == 85    \* confidence=0.85
AutoCallConfidencePct == 90 \* confidence > 0.9

\* floor of the square root, by bisection on lo..hi
RECURSIVE ISqrtIn(_, _, _)
ISqrtIn(n, lo, hi) ==
    IF lo >= hi THEN lo
    ELSE LET mid == (lo + hi + 1) \div 2
         IN IF mid * mid <= n THEN ISqrtIn(n, mid, hi) ELSE ISqrtIn(n, lo, mid - 1)
ISqrt(n) == ISqrtIn(n, 0, 46340)

\* np.sqrt(x**2 + y**2 + z**2); exact on the samples of this model
Magnitude(reading) ==
    ISqrt(reading.x * reading.x + reading.y * reading.y + reading.z * reading.z)

Magnitudes(readings) == [k \in DOMAIN readings |-> Magnitude(readings[k])]

\* np.argmax: the first position of the maximum (positions count from 1 here,
\* from 0 in the source)
ArgMax(m) == CHOOSE i \in DOMAIN m :
                /\ \A j \in DOMAIN m : m[j] <= m[i]
                /\ \A j \in 1..(i - 1) : m[j] < m[i]

\* np.max(magnitudes) > self.fall_threshold * 9.81
ImpactDetected(m) == SeqMax(m) * 10 > FallThresholdTenthsG * G

\* int(sampling_rate_hz * 2)
WindowSize(sampling_rate_hz) == sampling_rate_hz * 2

\* faulty variant: the window is allowed to end with the batch
WindowFitsToEnd(impact_index, window_size, len) == impact_index - 1 + window_size <= len

\* "if impact_index + window_size < len(magnitudes)", impact_index from 1
WindowFits(impact_index, window_size, len) == impact_index - 1 + window_size < len

\* np.mean(magnitudes[impact_index:impact_index + window_size]) < 1.5 * 9.81;
\* the mean of an empty slice is nan, which is below nothing
LowMovement(m, impact_index, window_size) ==
    /\ window_size > 0
    /\ SeqSum(SubSeq(m, impact_index, impact_index + window_size - 1)) * 10
         < LowMovementTenthsG * G * window_size

\* whether analyze_accelerometer_data reaches _trigger_fall_alert
FallDecision(readings, sampling_rate_hz) ==
    /\ readings # <<>>
    /\ LET m == Magnitudes(readings)
           impact_index == ArgMax(m)
           window_size == WindowSize(sampling_rate_hz)
       IN  /\ ImpactDetected(m)
           /\ WindowFits(impact_index, window_size, Len(m))
           /\ LowMovement(m, impact_index, window_size)

\* faulty variant: the alert carries a field fall_detected set to true
FallAlertWithFlag(patient_id, impact_data, confidence) ==
    [alert_id |-> Len(fall_history) + 1,
     patient_id |-> patient_id,
     alert_type |-> "fall_detected",
     fall_detected |-> TRUE,
     timestamp |-> impact_data.timestamp,
     confidence |-> confidence,
     impact_force |-> [x |-> impact_data.x, y |-> impact_data.y, z |-> impact_data.z],
     status |-> "active",
     severity |-> "critical",
     auto_emergency_call |-> confidence > AutoCallConfidencePct]

\* the alert built by _trigger_fall_alert
FallAlert(patient_id, impact_data, confidence) ==
    [alert_id |-> Len(fall_history) + 1,
     patient_id |-> patient_id,
     alert_type |-> "fall_detected",
     timestamp |-> impact_data.timestamp,
     confidence |-> confidence,
     impact_force |-> [x |-> impact_data.x, y |-> impact_data.y, z |-> impact_data.z],
     status |-> "active",
     severity |-> "critical",
     auto_emergency_call |-> confidence > AutoCallConfidencePct]

\* float(np.max(magnitudes)) / 9.81, in thousandths of g, rounded down
MaxAcceleration(m) == (SeqMax(m) * 1000) \div G

\* analyze_accelerometer_data (analysis_timestamp, the wall-clock time of the
\* analysis, is left out of the report)
AnalyzeAccelerometerData(patient_id, accelerometer_readings, sampling_rate_hz) ==
    LET m == Magnitudes(accelerometer_readings)
        alert == FallAlert(patient_id, accelerometer_readings[ArgMax(m)], FallConfidencePct)
    IN
    /\ fall_call = NoCall
    /\ Len(fall_history) < MaxFalls
    /\ fall_call' = [op |-> "analyze_accelerometer_data", patient_id |-> patient_id,
                     accelerometer_readings |-> accelerometer_readings,
                     sampling_rate_hz |-> sampling_rate_hz]
    /\ IF accelerometer_readings = <<>>
       THEN /\ fall_result' = [kind |-> "report", fall_detected |-> FALSE]
            /\ fall_history' = fall_history
       ELSE IF FallDecision(accelerometer_readings, sampling_rate_hz)
       THEN /\ fall_result' = alert @@ [kind |-> "alert"]
            /\ fall_history' = RecordAlert(fall_history, alert)
       ELSE /\ fall_result' = [kind |-> "report", fall_detected |-> FALSE,
                               max_acceleration |-> MaxAcceleration(m)]
            /\ fall_history' = fall_history
    /\ UNCHANGED not_fall_vars

\* the endpoint hands the result to its caller
RespondFall ==
    /\ fall_call # NoCall
    /\ fall_call' = NoCall
    /\ fall_result' = NoResult
    /\ UNCHANGED fall_history
    /\ UNCHANGED not_fall_vars

----------------------------------------------------------------------------
(* ActivityMonitoringService                                               *)

BaselineDays == 14         \* set_baseline: analysis_days=14
ReducedPct == 60           \* baseline_avg * 0.6
MaxSleepMinutes == 720     \* sleep_hours > 12
MinSleepMinutes == 300     \* sleep_hours < 5
MinSocialPerDay == 30      \* 30 * analysis_days
RiskPerAnomaly == 20       \* len(anomalies) * 20

RECURSIVE EventCount(_)
EventCount(ps) ==
    IF ps = {} THEN 0
    ELSE LET p == CHOOSE q \in ps : TRUE
         IN Len(activity_patterns[p]) + EventCount(ps \ {p})

\* log_activity; timestamp is <<>> for None and <<day>> otherwise; the model's
\* timestamps are whole days, so hour_of_day is 0
LogActivity(patient_id, activity_type, duration_minutes, timestamp) ==
    LET ts == IF timestamp = <<>> THEN now ELSE timestamp[1]
    IN
    /\ act_call = NoCall
    /\ EventCount(Patients) < MaxEvents
    /\ activity_patterns' = [activity_patterns EXCEPT ![patient_id] =
            Append(@, [activity_type |-> activity_type,
                       duration_minutes |-> duration_minutes,
                       timestamp |-> ts,
                       hour_of_day |-> 0])]
    /\ act_call' = [op |-> "log_activity", patient_id |-> patient_id,
                    activity_type |-> activity_type,
                    duration_minutes |-> duration_minutes, timestamp |-> timestamp]
    /\ act_result' = [kind |-> "logged", activity_logged |-> TRUE,
                      activity_type |-> activity_type, timestamp |-> ts]
    /\ UNCHANGED <<baseline_patterns, now>>
    /\ UNCHANGED not_act_vars

\* faulty variant: the filter keeps every logged activity, whatever its age
RecentActivitiesUnfiltered(activities, analysis_days) == activities

\* recent_activities: those with timestamp > now - timedelta(days=analysis_days)
RecentActivities(activities, analysis_days) ==
    SelectSeq(activities, LAMBDA a : a.timestamp > now - analysis_days)

\* the loop filling activity_types: minutes per activity type met
RECURSIVE ActivityTypes(_)
ActivityTypes(recent) ==
    IF recent = <<>> THEN <<>>
    ELSE LET a == recent[Len(recent)]
             before == ActivityTypes(SubSeq(recent, 1, Len(recent) - 1))
             old == IF a.activity_type \in DOMAIN before THEN before[a.activity_type] ELSE 0
         IN (a.activity_type :> (old + a.duration_minutes)) @@ before

\* sum(activity_types.values())
RECURSIVE SumValues(_)
SumValues(f) ==
    IF DOMAIN f = {} THEN 0
    ELSE LET k == CHOOSE x \in DOMAIN f : TRUE
         IN f[k] + SumValues([x \in DOMAIN f \ {k} |-> f[x]])

\* activity_types.get(key, 0)
GetOr0(f, key) == IF key \in DOMAIN f THEN f[key] ELSE 0

\* faulty variant: the reduction test with the factor 0.4 in place of 0.6
ReducedActivityAt40(daily_average, baseline_avg) ==
    daily_average.num * baseline_avg.den * 100 < 40 * baseline_avg.num * daily_average.den

\* daily_average < baseline_avg * 0.6, both averages being fractions num/den
\* with positive den
ReducedActivity(daily_average, baseline_avg) ==
    daily_average.num * baseline_avg.den * 100
        < ReducedPct * baseline_avg.num * daily_average.den

\* the anomalies list of analyze_daily_patterns (descriptions left out)
Anomalies(patient_id, activity_types, daily_average, analysis_days) ==
    LET reduced ==
            IF patient_id \in DOMAIN baseline_patterns
               /\ ReducedActivity(daily_average, baseline_patterns[patient_id].daily_average)
            THEN << [type |-> "reduced_activity", severity |-> "medium"] >>
            ELSE <<>>
        sleep_minutes == GetOr0(activity_types, "sleeping")
        sleep ==
            IF sleep_minutes > MaxSleepMinutes
            THEN << [type |-> "excessive_sleep", severity |-> "medium"] >>
            ELSE IF sleep_minutes < MinSleepMinutes
            THEN << [type |-> "insufficient_sleep", severity |-> "high"] >>
            ELSE <<>>
        social ==
            IF GetOr0(activity_types, "social") < MinSocialPerDay * analysis_days
            THEN << [type |-> "social_isolation", severity |-> "medium"] >>
            ELSE <<>>
    IN reduced \o sleep \o social

\* faulty variant: the analysis without its "if not recent_activities" return
AnalysisWithoutEmptyCheck(patient_id, analysis_days) ==
    LET recent == RecentActivities(activity_patterns[patient_id], analysis_days)
        activity_types == ActivityTypes(recent)
        daily_average == [num |-> SumValues(activity_types), den |-> analysis_days]
        anomalies == Anomalies(patient_id, activity_types, daily_average, analysis_days)
    IN [kind |-> "analysis",
        analysis_period_days |-> analysis_days,
        daily_activity_average_minutes |-> daily_average,
        activity_breakdown |-> activity_types,
        anomalies_detected |-> Len(anomalies),
        anomalies |-> anomalies,
        risk_score |-> Len(anomalies) * RiskPerAnomaly]

\* analyze_daily_patterns from the point where recent_activities is known
AnalysisFrom(patient_id, analysis_days, recent) ==
    LET activity_types == ActivityTypes(recent)
        daily_average == [num |-> SumValues(activity_types), den |-> analysis_days]
        anomalies == Anomalies(patient_id, activity_types, daily_average, analysis_days)
    IN IF recent = <<>>
       THEN [kind |-> "analysis", status |-> "insufficient_data"]
       ELSE [kind |-> "analysis",
             analysis_period_days |-> analysis_days,
             daily_activity_average_minutes |-> daily_average,
             activity_breakdown |-> activity_types,
             anomalies_detected |-> Len(anomalies),
             anomalies |-> anomalies,
             risk_score |-> Len(anomalies) * RiskPerAnomaly]

\* the value returned by analyze_daily_patterns (analysis_days > 0)
Analysis(patient_id, analysis_days) ==
    AnalysisFrom(patient_id, analysis_days,
                 RecentActivities(activity_patterns[patient_id], analysis_days))

Insufficient(analysis) ==
    "status" \in DOMAIN analysis /\ analysis.status = "insufficient_data"

AnalyzeDailyPatterns(patient_id, analysis_days) ==
    /\ act_call = NoCall
    /\ act_call' = [op |-> "analyze_daily_patterns", patient_id |-> patient_id,
                    analysis_days |-> analysis_days]
    /\ act_result' = Analysis(patient_id, analysis_days)
    /\ UNCHANGED <<activity_patterns, baseline_patterns, now>>
    /\ UNCHANGED not_act_vars

\* faulty variant: the baseline is stored under every patient
StoreBaselineForAll(patient_id, analysis) ==
    IF ~Insufficient(analysis)
    THEN [q \in Patients |->
             [daily_average |-> analysis.daily_activity_average_minutes,
              activity_breakdown |-> analysis.activity_breakdown,
              set_at |-> now]]
    ELSE baseline_patterns

\* faulty variant: without data in the window the patient's baseline is
\* dropped
StoreBaselineOrClear(patient_id, analysis) ==
    IF ~Insufficient(analysis)
    THEN (patient_id :> [daily_average |-> analysis.daily_activity_average_minutes,
                         activity_breakdown |-> analysis.activity_breakdown,
                         set_at |-> now])
         @@ baseline_patterns
    ELSE [q \in DOMAIN baseline_patterns \ {patient_id} |-> baseline_patterns[q]]

\* baseline_patterns after the "if analysis.get('status') != ..." block of
\* set_baseline
StoreBaseline(patient_id, analysis) ==
    IF ~Insufficient(analysis)
    THEN (patient_id :> [daily_average |-> analysis.daily_activity_average_minutes,
                         activity_breakdown |-> analysis.activity_breakdown,
                         set_at |-> now])
         @@ baseline_patterns
    ELSE baseline_patterns

\* set_baseline, and the endpoint's answer
SetBaseline(patient_id) ==
    LET analysis == Analysis(patient_id, BaselineDays)
    IN
    /\ act_call = NoCall
    /\ act_call' = [op |-> "set_baseline", patient_id |-> patient_id]
    /\ baseline_patterns' = StoreBaseline(patient_id, analysis)
    /\ act_result' = [kind |-> "baseline", message |-> "Baseline set successfully",
                      patient_id |-> patient_id]
    /\ UNCHANGED <<activity_patterns, now>>
    /\ UNCHANGED not_act_vars

\* the endpoint hands the result to its caller
RespondActivity ==
    /\ act_call # NoCall
    /\ act_call' = NoCall
    /\ act_result' = NoResult
    /\ UNCHANGED <<activity_patterns, baseline_patterns, now>>
    /\ UNCHANGED not_act_vars

\* a day passes
Tick ==
    /\ act_call = NoCall
    /\ now < MaxDay
    /\ now' = now + 1
    /\ UNCHANGED <<activity_patterns, baseline_patterns, act_call, act_result>>
    /\ UNCHANGED not_act_vars

\* a longer time passes between two requests: datetime.now() has moved on
Advance(days) ==
    /\ act_call = NoCall
    /\ now + days <= MaxClock
    /\ now' = now + days
    /\ UNCHANGED <<activity_patterns, baseline_patterns, act_call, act_result>>
    /\ UNCHANGED not_act_vars

----------------------------------------------------------------------------
(* The activity endpoints as coroutines on the event loop.  A request is   *)
(* accepted ("pending"), then its handler runs the service method in       *)
(* steps: log_activity appends; analyze_daily_patterns filters the log     *)
(* and then aggregates against the baseline; set_baseline does the same    *)
(* with a window of 14 days and then stores the baseline.  The handlers    *)
(* are "async def" functions whose bodies never await, so the loop starts  *)
(* a handler only when no other handler is in the middle of its body.      *)

Requests == 1..MaxRequests
NoHandler == [pc |-> "none"]

\* a handler that has started its body and has not returned
InBody(h) == h.pc \in {"aggregate", "store"}

\* faulty variant: the loop may switch to another handler at any point
LoopFreeAtAnyPoint(r) == TRUE

\* the event loop can start the handler of request r
LoopFree(r) == \A q \in Requests \ {r} : ~InBody(handlers[q])

\* a request arrives; analysis_days is 14 for set_baseline
Accept(r, op, patient_id, analysis_days) ==
    /\ handlers[r] = NoHandler
    /\ \A q \in Requests : q < r => handlers[q] # NoHandler
    /\ handlers' = [handlers EXCEPT ![r] =
            [pc |-> "pending", op |-> op, patient_id |-> patient_id,
             analysis_days |-> analysis_days]]
    /\ UNCHANGED <<gps_vars, fall_vars, act_vars, adv_vars>>

\* the whole of log_activity(patient_id, "walking", 60)
HandlerLog(r) ==
    LET h == handlers[r]
    IN
    /\ h.pc = "pending" /\ h.op = "log_activity"
    /\ LoopFree(r)
    /\ activity_patterns' = [activity_patterns EXCEPT ![h.patient_id] =
            Append(@, [activity_type |-> "walking", duration_minutes |-> 60,
                       timestamp |-> now, hour_of_day |-> 0])]
    /\ handlers' = [handlers EXCEPT ![r] =
            [h EXCEPT !.pc = "returned"]
            @@ [result |-> [kind |-> "logged", activity_logged |-> TRUE,
                            activity_type |-> "walking", timestamp |-> now]]]
    /\ UNCHANGED <<baseline_patterns, now, act_call, act_result>>
    /\ UNCHANGED <<gps_vars, fall_vars, adv_vars>>

\* analyze_daily_patterns up to recent_activities
HandlerFilter(r) ==
    LET h == handlers[r]
    IN
    /\ h.pc = "pending" /\ h.op \in {"analyze_daily_patterns", "set_baseline"}
    /\ LoopFree(r)
    /\ handlers' = [handlers EXCEPT ![r] =
            [h EXCEPT !.pc = "aggregate"]
            @@ [recent |-> RecentActivities(activity_patterns[h.patient_id],
                                            h.analysis_days)]]
    /\ UNCHANGED <<gps_vars, fall_vars, act_vars, adv_vars>>

\* the rest of analyze_daily_patterns; the analyze endpoint then returns
HandlerAggregate(r) ==
    LET h == handlers[r]
        analysis == AnalysisFrom(h.patient_id, h.analysis_days, h.recent)
    IN
    /\ h.pc = "aggregate"
    /\ handlers' = [handlers EXCEPT ![r] =
            IF h.op = "set_baseline"
            THEN [h EXCEPT !.pc = "store"] @@ [analysis |-> analysis]
            ELSE [h EXCEPT !.pc = "returned"] @@ [result |-> analysis]]
    /\ UNCHANGED <<gps_vars, fall_vars, act_vars, adv_vars>>

\* the rest of set_baseline; the endpoint then returns
HandlerStore(r) ==
    LET h == handlers[r]
    IN
    /\ h.pc = "store"
    /\ baseline_patterns' = StoreBaseline(h.patient_id, h.analysis)
    /\ handlers' = [handlers EXCEPT ![r] =
            [h EXCEPT !.pc = "returned"]
            @@ [result |-> [kind |-> "baseline", message |-> "Baseline set successfully",
                            patient_id |-> h.patient_id]]]
    /\ UNCHANGED <<activity_patterns, now, act_call, act_result>>
    /\ UNCHANGED <<gps_vars, fall_vars, adv_vars>>

----------------------------------------------------------------------------
(* GaitAnalyzer.  Scores are thousandths, rounded down where the source    *)
(* computes in floating point; NaN stands for the float nan.               *)

NaN == -(1000 * 1000)
IsNaN(v) == v = NaN
Min(a, b) == IF a <= b THEN a ELSE b

\* n * sqrt(variance) of a list of numbers: np.std(v) * len(v), rounded down
NStd(v) == ISqrt(Len(v) * SeqSum([k \in DOMAIN v |-> v[k] * v[k]]) - SeqSum(v) * SeqSum(v))

\* magnitude[i] > magnitude.mean() + magnitude.std(), in exact arithmetic:
\* n*m[i] - sum > sqrt(n*sum(m^2) - sum^2)
AboveThreshold(m, i) ==
    LET n == Len(m)
        d == n * m[i] - SeqSum(m)
    IN  d > 0 /\ d * d > n * SeqSum([k \in DOMAIN m |-> m[k] * m[k]]) - SeqSum(m) * SeqSum(m)

\* _detect_steps: the interior strict local maxima above the threshold, in
\* increasing order (positions count from 1 here)
DetectSteps(m) ==
    LET peak(i) == /\ AboveThreshold(m, i)
                   /\ m[i] > m[i - 1]
                   /\ m[i] > m[i + 1]
    IN  SelectSeq([k \in 1..(Len(m) - 2) |-> k + 1], peak)

\* _calculate_gait_speed, in mm/s
CalculateGaitSpeed(steps, timestamps) ==
    IF Len(steps) < 2 THEN 0
    ELSE LET duration == timestamps[Len(timestamps)] - timestamps[1]
         IN IF duration = 0 THEN 0 ELSE (Len(steps) * 700) \div duration

\* _calculate_stride_variability: std of the step gaps over their mean
CalculateStrideVariability(steps) ==
    IF Len(steps) < 3 THEN 0
    ELSE LET gaps == [k \in 1..(Len(steps) - 1) |-> steps[k + 1] - steps[k]]
         IN IF SeqSum(gaps) > 0 THEN (NStd(gaps) * 1000) \div SeqSum(gaps) ELSE 0

\* _assess_balance: 1 - min((std(x) + std(z)) / 8, 1); the std of an empty
\* array is nan and min(nan, 1.0) is nan
AssessBalance(acc_x, acc_z) ==
    IF acc_x = <<>> THEN NaN
    ELSE 1000 - Min((((NStd(acc_x) + NStd(acc_z)) \div Len(acc_x)) * 1000) \div 800, 1000)

\* _calculate_fall_risk
CalculateFallRisk(gait_speed, stride_variability, balance) ==
    LET speed_risk == 1000 - Min((gait_speed * 1000) \div 1200, 1000)
        variability_risk == Min(stride_variability * 10, 1000)
    IN  IF IsNaN(balance) THEN NaN
        ELSE (speed_risk * 400 + variability_risk * 300 + (1000 - balance) * 300) \div 1000

\* "high" if risk > 0.7 else "moderate" if risk > 0.4 else "low"; every
\* comparison with nan is false
RiskLevel(risk) ==
    IF ~IsNaN(risk) /\ risk > 700 THEN "high"
    ELSE IF ~IsNaN(risk) /\ risk > 400 THEN "moderate"
    ELSE "low"

\* _generate_gait_recommendations
GenerateGaitRecommendations(speed, variability, risk) ==
    LET recs == (IF speed < 800 THEN <<"improve gait speed">> ELSE <<>>)
                \o (IF variability > 150 THEN <<"stride consistency">> ELSE <<>>)
                \o (IF ~IsNaN(risk) /\ risk > 600
                    THEN <<"fall prevention", "assistive devices">> ELSE <<>>)
    IN  IF recs # <<>> THEN recs ELSE <<"continue regular walking">>

\* faulty variant: the cadence is computed, and fails, for a single sample too
GaitRaisesOnSingleSample(accelerometer_data) ==
    /\ Len(accelerometer_data) >= 1
    /\ accelerometer_data[Len(accelerometer_data)].timestamp = accelerometer_data[1].timestamp

\* the cadence expression divides by (timestamps[-1] - timestamps[0]) / 60
\* whenever there is more than one timestamp: ZeroDivisionError
GaitRaises(accelerometer_data) ==
    /\ Len(accelerometer_data) > 1
    /\ accelerometer_data[Len(accelerometer_data)].timestamp = accelerometer_data[1].timestamp

\* the dict returned by analyze_gait_data when it does not raise
GaitReport(accelerometer_data) ==
    LET timestamps == [k \in DOMAIN accelerometer_data |-> accelerometer_data[k].timestamp]
        acc_x == [k \in DOMAIN accelerometer_data |-> accelerometer_data[k].x]
        acc_z == [k \in DOMAIN accelerometer_data |-> accelerometer_data[k].z]
        steps == DetectSteps(Magnitudes(accelerometer_data))
        gait_speed == CalculateGaitSpeed(steps, timestamps)
        stride_variability == CalculateStrideVariability(steps)
        balance_score == AssessBalance(acc_x, acc_z)
        fall_risk == CalculateFallRisk(gait_speed, stride_variability, balance_score)
    IN  [step_count |-> Len(steps),
         gait_speed_m_per_s |-> gait_speed,
         stride_variability |-> stride_variability,
         balance_score |-> balance_score,
         cadence_steps_per_min |->
             IF Len(timestamps) > 1
             THEN (Len(steps) * 60) \div (timestamps[Len(timestamps)] - timestamps[1])
             ELSE 0,
         fall_risk_score |-> fall_risk,
         risk_level |-> RiskLevel(fall_risk),
         recommendations |->
             GenerateGaitRecommendations(gait_speed, stride_variability, fall_risk)]

HttpError == [kind |-> "http_error", status_code |-> 500]

\* the /advanced/gait/analyze endpoint around analyze_gait_data
AnalyzeGaitData(accelerometer_data) ==
    /\ adv_call = NoCall
    /\ adv_call' = [op |-> "analyze_gait_data", accelerometer_data |-> accelerometer_data]
    /\ adv_result' = IF GaitRaises(accelerometer_data) THEN HttpError
                     ELSE GaitReport(accelerometer_data) @@ [kind |-> "gait"]
    /\ UNCHANGED not_adv_vars

----------------------------------------------------------------------------
(* SleepAnalyzer.  A session is [total_sleep_min, rem_min, deep_min,       *)
(* awakenings, efficiency], the efficiency in percent.  Averages are kept  *)
(* as sums over the n sessions and the quality score as an exact fraction  *)
(* num/den.                                                                *)

OptimalDuration == 480     \* optimal_duration = 480
Field(sessions, name) == [k \in DOMAIN sessions |-> sessions[k][name]]

\* faulty variant: the quality score with the efficiency term capped at 0.85
SleepQualityCapped(n, total, rem, efficiency, awakenings) ==
    LET duration_part == 150 * (OptimalDuration * n
                                - Min(Abs(total - OptimalDuration * n), OptimalDuration * n))
        efficiency_part == 600 * Min(efficiency, 85 * n)
        awakening_part == 3600 * (10 * n - Min(awakenings, 10 * n))
        rest == duration_part + efficiency_part + awakening_part
    IN  IF total > 0
        THEN [num |-> rest * total + 30 * Min(4 * rem, total) * 2400 * n,
              den |-> 2400 * n * total]
        ELSE [num |-> rest, den |-> 2400 * n]

\* _calculate_sleep_quality on the averages total/n, rem/n, efficiency/(100n)
\* and awakenings/n:
\*   duration_score  = 1 - min(|total/n - 480| / 480, 1)
\*   rem_score       = min(rem_percentage / 25, 1), rem_percentage = 100*rem/total
\*                     (0 when total is 0)
\*   awakening_score = 1 - min(awakenings/n / 10, 1)
\*   quality = (0.3 duration + 0.3 rem + 0.25 efficiency + 0.15 awakening) * 100
\* over the common denominator 2400*n (times total for the REM term)
SleepQuality(n, total, rem, efficiency, awakenings) ==
    LET duration_part == 150 * (OptimalDuration * n
                                - Min(Abs(total - OptimalDuration * n), OptimalDuration * n))
        efficiency_part == 600 * efficiency
        awakening_part == 3600 * (10 * n - Min(awakenings, 10 * n))
        rest == duration_part + efficiency_part + awakening_part
    IN  IF total > 0
        THEN [num |-> rest * total + 30 * Min(4 * rem, total) * 2400 * n,
              den |-> 2400 * n * total]
        ELSE [num |-> rest, den |-> 2400 * n]

\* the risk_factors list
SleepRiskFactors(n, total, rem, efficiency, awakenings) ==
    (IF total < 360 * n THEN <<"Insufficient sleep duration">> ELSE <<>>)
    \o (IF total <= 0 \/ 100 * rem < 15 * total THEN <<"Reduced REM sleep">> ELSE <<>>)
    \o (IF awakenings > 5 * n THEN <<"Frequent awakenings">> ELSE <<>>)
    \o (IF efficiency < 85 * n THEN <<"Poor sleep efficiency">> ELSE <<>>)

\* _generate_sleep_recommendations
GenerateSleepRecommendations(n, total, rem, efficiency) ==
    LET recs == (IF total < 360 * n THEN <<"aim for 7-9 hours">> ELSE <<>>)
                \o (IF total <= 0 \/ 100 * rem < 15 * total
                    THEN <<"avoid alcohol", "consistent schedule">> ELSE <<>>)
                \o (IF efficiency < 85 * n THEN <<"sleep hygiene">> ELSE <<>>)
    IN  IF recs # <<>> THEN recs ELSE <<"maintain current patterns">>

\* the dict returned by analyze_sleep_data (the averages themselves are left
\* out; sleep_variability is in thousandths, rounded down)
SleepAnalysis(sleep_sessions) ==
    IF sleep_sessions = <<>> THEN [error |-> "No sleep data provided"]
    ELSE
    LET n == Len(sleep_sessions)
        total == SeqSum(Field(sleep_sessions, "total_sleep_min"))
        rem == SeqSum(Field(sleep_sessions, "rem_min"))
        efficiency == SeqSum(Field(sleep_sessions, "efficiency"))
        awakenings == SeqSum(Field(sleep_sessions, "awakenings"))
        risk_factors == SleepRiskFactors(n, total, rem, efficiency, awakenings)
    IN  [analysis_period_days |-> n,
         sleep_variability |->
             IF total > 0
             THEN (NStd(Field(sleep_sessions, "total_sleep_min")) * 1000) \div total
             ELSE 0,
         sleep_quality_score |-> SleepQuality(n, total, rem, efficiency, awakenings),
         risk_factors |-> risk_factors,
         cognitive_impact |-> IF Len(risk_factors) >= 3 THEN "high"
                              ELSE IF Len(risk_factors) >= 2 THEN "moderate"
                              ELSE "low",
         recommendations |-> GenerateSleepRecommendations(n, total, rem, efficiency)]

\* the /advanced/sleep/analyze endpoint around analyze_sleep_data
AnalyzeSleepData(sleep_sessions) ==
    /\ adv_call = NoCall
    /\ adv_call' = [op |-> "analyze_sleep_data", sleep_sessions |-> sleep_sessions]
    /\ adv_result' = SleepAnalysis(sleep_sessions) @@ [kind |-> "sleep"]
    /\ UNCHANGED not_adv_vars

----------------------------------------------------------------------------
(* EyeTrackingAnalyzer.  A fixation is [x, y, duration] (pixels,           *)
(* milliseconds), a saccade [start_x, start_y, end_x, end_y, velocity]     *)
(* (degrees, degrees per second).  Ratios and scores are thousandths,      *)
(* rounded down; averages are reported rounded down to whole units.        *)

\* np.mean(v) if v else 0
MeanOr0(v) == IF v = <<>> THEN 0 ELSE SeqSum(v) \div Len(v)

\* (np.mean(v) if v else 0) > c and ... < c, without rounding
MeanAbove(v, c) == v # <<>> /\ SeqSum(v) > c * Len(v)
MeanBelow(v, c) == IF v = <<>> THEN 0 < c ELSE SeqSum(v) < c * Len(v)

\* abs(mean - normal) / normal, the mean of an empty list taken as 0
Abnormal(v, normal) ==
    IF v = <<>> THEN 1000
    ELSE (Abs(SeqSum(v) - normal * Len(v)) * 1000) \div (normal * Len(v))

\* np.sqrt(dx**2 + dy**2) of one saccade
Amplitude(s) ==
    ISqrt((s.end_x - s.start_x) * (s.end_x - s.start_x)
          + (s.end_y - s.start_y) * (s.end_y - s.start_y))

\* _calculate_dispersion: the mean distance of the fixations from their
\* centroid, 0.0 for fewer than two fixations
CalculateDispersion(fixations) ==
    IF Len(fixations) < 2 THEN 0
    ELSE LET n == Len(fixations)
             sx == SeqSum(Field(fixations, "x"))
             sy == SeqSum(Field(fixations, "y"))
             dist == [k \in DOMAIN fixations |->
                         ISqrt((n * fixations[k].x - sx) * (n * fixations[k].x - sx)
                               + (n * fixations[k].y - sy) * (n * fixations[k].y - sy))]
         IN  (SeqSum(dist) * 1000) \div (n * n)

\* _assess_smooth_pursuit: 0.5 without saccades, else 1 - min(cv, 1) with
\* cv = std / mean of the velocities (1.0 when the mean is not positive)
AssessSmoothPursuit(saccades) ==
    IF saccades = <<>> THEN 500
    ELSE LET velocities == Field(saccades, "velocity")
         IN  IF SeqSum(velocities) > 0
             THEN 1000 - Min((NStd(velocities) * 1000) \div SeqSum(velocities), 1000)
             ELSE 0

NormalFixationMs == 300    \* abs(fixation_duration - 300) / 300
NormalSaccadeVelocity == 350 \* abs(saccade_velocity - 350) / 350

\* _calculate_eye_tracking_risk
CalculateEyeTrackingRisk(fixation_durations, saccade_velocities, pursuit_quality) ==
    Min((Abnormal(fixation_durations, NormalFixationMs)
         + Abnormal(saccade_velocities, NormalSaccadeVelocity)
         + (1000 - pursuit_quality)) \div 3, 1000)

\* _detect_abnormalities
DetectAbnormalities(fixation_durations, saccade_velocities) ==
    (IF MeanAbove(fixation_durations, 500) THEN <<"Prolonged fixations">>
     ELSE IF MeanBelow(fixation_durations, 150) THEN <<"Brief fixations">>
     ELSE <<>>)
    \o (IF MeanBelow(saccade_velocities, 200) THEN <<"Slow saccades">>
        ELSE IF MeanAbove(saccade_velocities, 600) THEN <<"Hyperactive saccades">>
        ELSE <<>>)

\* the dict returned by analyze_gaze_data; test_duration in seconds
GazeReport(fixations, saccades, test_duration) ==
    LET fixation_durations == Field(fixations, "duration")
        saccade_velocities == Field(saccades, "velocity")
        amplitudes == [k \in DOMAIN saccades |-> Amplitude(saccades[k])]
        pursuit_quality == AssessSmoothPursuit(saccades)
        fixation_rate == IF test_duration > 0
                         THEN (Len(fixations) * 1000) \div test_duration ELSE 0
        saccade_rate == IF test_duration > 0
                        THEN (Len(saccades) * 1000) \div test_duration ELSE 0
    IN  [fixation_metrics |-> [count |-> Len(fixations),
                               average_duration_ms |-> MeanOr0(fixation_durations),
                               rate_per_second |-> fixation_rate],
         saccade_metrics |-> [count |-> Len(saccades),
                              average_velocity_deg_per_sec |-> MeanOr0(saccade_velocities),
                              average_amplitude_deg |-> MeanOr0(amplitudes),
                              rate_per_second |-> saccade_rate],
         gaze_dispersion |-> CalculateDispersion(fixations),
         smooth_pursuit_quality |-> pursuit_quality,
         cognitive_load_estimate |->
             IF test_duration > 0
             THEN Min(((Len(fixations) + Len(saccades)) * 100) \div test_duration, 1000)
             ELSE 0,
         risk_score |-> CalculateEyeTrackingRisk(fixation_durations, saccade_velocities,
                                                 pursuit_quality),
         abnormalities |-> DetectAbnormalities(fixation_durations, saccade_velocities)]

\* the /advanced/eye-tracking/analyze endpoint around analyze_gaze_data
AnalyzeGazeData(fixations, saccades, test_duration) ==
    /\ adv_call = NoCall
    /\ adv_call' = [op |-> "analyze_gaze_data", fixations |-> fixations,
                    saccades |-> saccades, test_duration |-> test_duration]
    /\ adv_result' = GazeReport(fixations, saccades, test_duration) @@ [kind |-> "gaze"]
    /\ UNCHANGED not_adv_vars

----------------------------------------------------------------------------
(* SpeechAnalysisService: the two helpers of analyze_speech_recording that *)
(* the properties below are about.  Words are numbered (two words are the  *)
(* same word exactly when they have the same number); the speech rate is   *)
(* in whole words per minute; ratios and sub-scores are thousandths; the   *)
(* cognitive score (0-100) is in thousandths of a point.                   *)

BaselineWpm == 150         \* self.baseline_wpm = 150

\* rate_score = 1.0 - min(speech_rate / 200, 1.0)
RateScore(speech_rate) == 1000 - Min((speech_rate * 1000) \div 200, 1000)

\* 1.0 - min(ratio * factor, 1.0)
Inverted(ratio, factor) == 1000 - Min(ratio * factor, 1000)

\* _calculate_cognitive_score: the weighted sum of the seven sub-scores
\* (weights in percent), times 100
CalculateCognitiveScoreOf(metrics) ==
    RateScore(metrics.speech_rate) * 15
    + Inverted(metrics.pause_ratio, 5) * 20
    + Inverted(metrics.word_finding_score, 3) * 25
    + metrics.coherence * 15
    + metrics.vocabulary_diversity * 10
    + Inverted(metrics.repetition_rate, 10) * 10
    + Inverted(metrics.filler_ratio, 5) * 5

CalculateCognitiveScore(metrics) ==
    /\ adv_call = NoCall
    /\ adv_call' = [op |-> "calculate_cognitive_score", metrics |-> metrics]
    /\ adv_result' = [kind |-> "cognitive_score",
                      cognitive_score |-> CalculateCognitiveScoreOf(metrics)]
    /\ UNCHANGED not_adv_vars

\* word_counts: how often a word occurs in the list
WordCount(words, w) == Cardinality({k \in DOMAIN words : words[k] = w})

\* faulty variant: a word is excessive only when it occurs more than once
\* and in more than 5% of the words
ExcessiveRepsOfRepeated(words) ==
    Cardinality({w \in {words[k] : k \in DOMAIN words} :
                    WordCount(words, w) > 1 /\ 20 * WordCount(words, w) > Len(words)})

\* excessive_reps: the distinct words whose count exceeds len(words) * 0.05
ExcessiveReps(words) ==
    Cardinality({w \in {words[k] : k \in DOMAIN words} :
                    20 * WordCount(words, w) > Len(words)})

\* phrase_reps: the distinct three-word sequences that occur more than once
PhraseReps(words) ==
    LET starts == 1..(Len(words) - 2)
        phrase(i) == SubSeq(words, i, i + 2)
    IN  Cardinality({ph \in {phrase(i) : i \in starts} :
                        Cardinality({i \in starts : phrase(i) = ph}) > 1})

\* "high" if repetition_rate > 0.10 else "moderate" if > 0.05 else "low",
\* on the rate (excessive_reps + phrase_reps) / len(words)
RepetitionSeverity(reps, len) ==
    IF 10 * reps > len THEN "high"
    ELSE IF 20 * reps > len THEN "moderate"
    ELSE "low"

\* the dict returned by _detect_repetitions; repetition_rate as the fraction
\* num/den
RepetitionReport(words) ==
    IF words = <<>>
    THEN [word_repetitions |-> 0, phrase_repetitions |-> 0,
          repetition_rate |-> [num |-> 0, den |-> 1]]
    ELSE [word_repetitions |-> ExcessiveReps(words),
          phrase_repetitions |-> PhraseReps(words),
          repetition_rate |-> [num |-> ExcessiveReps(words) + PhraseReps(words),
                               den |-> Len(words)],
          severity |-> RepetitionSeverity(ExcessiveReps(words) + PhraseReps(words),
                                          Len(words))]

DetectRepetitions(words) ==
    /\ adv_call = NoCall
    /\ adv_call' = [op |-> "detect_repetitions", words |-> words]
    /\ adv_result' = RepetitionReport(words) @@ [kind |-> "repetitions"]
    /\ UNCHANGED not_adv_vars

----------------------------------------------------------------------------
(* The comprehensive assessment endpoint.  An optional request body is <<>>*)
(* when absent and <<body>> when supplied.  The speech and eye-tracking    *)
(* analyzers are not unfolded: a speech body stands for any recording      *)
(* whose analysis yields its cognitive_score (0..100), an eye-tracking     *)
(* body for any gaze data whose analysis yields its risk_score             *)
(* (thousandths); sleep and sentiment bodies yield a report that the       *)
(* endpoint stores and does not read.                                      *)

SpeechReport(body) == [cognitive_score |-> body.cognitive_score]
EyeTrackingReport(body) == [risk_score |-> body.risk_score]
SleepReport(body) == SleepAnalysis(body.sleep_sessions)
SentimentReport(body) == [sentiment_label |-> body.sentiment_label]

\* results["assessments"] after the five "if ..._data:" blocks
Assessments(speech_data, eye_tracking_data, gait_data, sleep_data, sentiment_data) ==
    (IF speech_data # <<>> THEN [speech |-> SpeechReport(speech_data[1])] ELSE <<>>)
    @@ (IF eye_tracking_data # <<>>
        THEN [eye_tracking |-> EyeTrackingReport(eye_tracking_data[1])] ELSE <<>>)
    @@ (IF gait_data # <<>> THEN [gait |-> GaitReport(gait_data[1])] ELSE <<>>)
    @@ (IF sleep_data # <<>> THEN [sleep |-> SleepReport(sleep_data[1])] ELSE <<>>)
    @@ (IF sentiment_data # <<>>
        THEN [sentiment |-> SentimentReport(sentiment_data[1])] ELSE <<>>)

\* the list risk_scores, in thousandths
RiskScores(assessments) ==
    (IF "speech" \in DOMAIN assessments
     THEN <<1000 - assessments.speech.cognitive_score * 10>> ELSE <<>>)
    \o (IF "eye_tracking" \in DOMAIN assessments
        THEN <<assessments.eye_tracking.risk_score>> ELSE <<>>)
    \o (IF "gait" \in DOMAIN assessments
        THEN <<assessments.gait.fall_risk_score>> ELSE <<>>)

\* sum(risk_scores) / len(risk_scores) if risk_scores else 0, as the fraction
\* num/den of thousandths; a nan term makes the sum nan
OverallRisk(risk_scores) ==
    IF risk_scores = <<>> THEN [num |-> 0, den |-> 1]
    ELSE IF \E k \in DOMAIN risk_scores : IsNaN(risk_scores[k])
    THEN [num |-> NaN, den |-> Len(risk_scores)]
    ELSE [num |-> SeqSum(risk_scores), den |-> Len(risk_scores)]

\* "high" if overall_risk > 0.7 else "moderate" if overall_risk > 0.4 else "low"
OverallLevel(overall) ==
    IF ~IsNaN(overall.num) /\ overall.num > 700 * overall.den THEN "high"
    ELSE IF ~IsNaN(overall.num) /\ overall.num > 400 * overall.den THEN "moderate"
    ELSE "low"

\* comprehensive_cognitive_assessment: one try block around everything; any
\* exception becomes HTTPException(500)
ComprehensiveAssessment(patient_id, speech_data, eye_tracking_data, gait_data, sleep_data, sentiment_data) ==
    LET assessments == Assessments(speech_data, eye_tracking_data, gait_data,
                                   sleep_data, sentiment_data)
        overall == OverallRisk(RiskScores(assessments))
    IN
    /\ adv_call = NoCall
    /\ adv_call' = [op |-> "comprehensive_assessment", patient_id |-> patient_id,
                    speech_data |-> speech_data, eye_tracking_data |-> eye_tracking_data,
                    gait_data |-> gait_data, sleep_data |-> sleep_data,
                    sentiment_data |-> sentiment_data]
    /\ adv_result' =
          IF gait_data # <<>> /\ GaitRaises(gait_data[1])
          THEN HttpError
          ELSE [kind |-> "assessment",
                patient_id |-> patient_id,
                assessments |-> assessments,
                overall_risk_score |-> overall,
                risk_level |-> OverallLevel(overall)]
    /\ UNCHANGED not_adv_vars

\* the endpoint hands the result to its caller
RespondAdvanced ==
    /\ adv_call # NoCall
    /\ adv_call' = NoCall
    /\ adv_result' = NoResult
    /\ UNCHANGED not_adv_vars

----------------------------------------------------------------------------
(* Initial state and specifications                                        *)

InitGPS ==
    /\ safe_zones = [p \in Patients |-> <<>>]
    /\ location_history = [p \in Patients |-> <<>>]
    /\ wandering_alerts = <<>>
    /\ gps_call = NoCall
    /\ gps_result = NoResult

InitFall ==
    /\ fall_history = <<>>
    /\ fall_call = NoCall
    /\ fall_result = NoResult

InitActivity ==
    /\ activity_patterns = [p \in Patients |-> <<>>]
    /\ baseline_patterns = <<>>
    /\ now = 0
    /\ act_call = NoCall
    /\ act_result = NoResult

InitAdvanced ==
    /\ adv_call = NoCall
    /\ adv_result = NoResult

InitLoop == handlers = [r \in Requests |-> NoHandler]

Init == InitGPS /\ InitFall /\ InitActivity /\ InitAdvanced /\ InitLoop

\* Inputs of the GPS endpoints
T0300 == ParseHM(<<3, 0>>)      \* 03:00:00
T1000 == ParseHM(<<10, 0>>)     \* 10:00:00
Times == {T0300, T1000}
Radius150 == Metres(150)
NegRadius == -Metres(5)

ValidZoneInputs ==
    { [name |-> "home", lat |-> HomeLat, radius |-> Radius150, times |-> DayActiveTimes],
      [name |-> "park", lat |-> FarLat, radius |-> Radius150, times |-> <<>>] }
InvalidZoneInputs ==
    { [name |-> "neg", lat |-> HomeLat, radius |-> NegRadius, times |-> <<>>],
      [name |-> "pole", lat |-> BadLat, radius |-> Radius150, times |-> <<>>] }
ValidFixLats == {HomeLat, NearLat, FarLat}
InvalidFixLats == {BadLat}

CreateSafeZoneFrom(inputs) ==
    \E p \in Patients, z \in inputs :
        CreateSafeZone(p, z.name, z.lat, MeridianLon, z.radius, z.times)

CheckLocationFrom(lats) ==
    \E p \in Patients, lat \in lats, t \in Times :
        CheckLocation(p, lat, MeridianLon, t)

NextGPS ==
    \/ CreateSafeZoneFrom(ValidZoneInputs)
    \/ CheckLocationFrom(ValidFixLats)
    \/ RespondGPS

SpecGPS == Init /\ [][NextGPS]_vars

\* the same service with a zone created without active_times and a zone
\* whose window starts in the evening and ends in the morning, checked at
\* midnight, at night, in the morning, in the evening, at 23:59:00 and thirty
\* seconds later
T2300 == ParseHM(<<23, 0>>)     \* 23:00:00
T2359 == ParseHM(<<23, 59>>)    \* 23:59:00
T235930 == T2359 + 30           \* 23:59:30
WindowTimes == {0, T0300, T1000, T2300, T2359, T235930}
WindowZoneInputs ==
    { [name |-> "park", lat |-> FarLat, radius |-> Radius150, times |-> <<>>],
      [name |-> "night", lat |-> HomeLat, radius |-> Radius150, times |-> NightActiveTimes] }

NextGPSWindows ==
    \/ CreateSafeZoneFrom(WindowZoneInputs)
    \/ \E p \in Patients, lat \in {HomeLat, FarLat}, t \in WindowTimes :
          CheckLocation(p, lat, MeridianLon, t)
    \/ RespondGPS

SpecGPSWindows == Init /\ [][NextGPSWindows]_vars

\* the same service driven with out-of-range inputs as well
NextGPSInvalid ==
    \/ CreateSafeZoneFrom(ValidZoneInputs \cup InvalidZoneInputs)
    \/ CheckLocationFrom(ValidFixLats \cup InvalidFixLats)
    \/ RespondGPS

SpecGPSInvalid == Init /\ [][NextGPSInvalid]_vars

\* Inputs of the fall-detection endpoint: free fall, rest (1 g on the z axis),
\* an impact of 2.55 g across two axes and an impact of 4 g
SampleKinds ==
    { [x |-> 0, y |-> 0, z |-> 0],
      [x |-> 0, y |-> 0, z |-> 981],
      [x |-> 1500, y |-> 2000, z |-> 0],
      [x |-> 0, y |-> 0, z |-> 3924] }
SamplingRates == {1, 2}

\* all batches of at most n samples; the k-th sample is stamped k
RECURSIVE BatchesUpTo(_)
BatchesUpTo(n) ==
    IF n = 0 THEN {<<>>}
    ELSE LET shorter == BatchesUpTo(n - 1)
         IN shorter \cup
            { Append(b, [x |-> s.x, y |-> s.y, z |-> s.z, timestamp |-> n]) :
                b \in {c \in shorter : Len(c) = n - 1}, s \in SampleKinds }
Batches == BatchesUpTo(MaxBatch)

NextFall ==
    \/ \E p \in Patients, b \in Batches, r \in SamplingRates :
          AnalyzeAccelerometerData(p, b, r)
    \/ RespondFall

SpecFall == Init /\ [][NextFall]_vars

\* Inputs of the activity endpoints; an event is logged with no timestamp
\* (so with the current date) or dated 20 days back
LoggedTypes == {"sleeping", "walking"}
Durations == {60, 420}
AnalysisWindows == {1, 2, 28}

NextActivity ==
    \/ \E p \in Patients, t \in LoggedTypes, d \in Durations,
          ts \in {<<>>, <<now - 20>>} : LogActivity(p, t, d, ts)
    \/ \E p \in Patients, w \in AnalysisWindows : AnalyzeDailyPatterns(p, w)
    \/ \E p \in Patients : SetBaseline(p)
    \/ RespondActivity
    \/ Tick

SpecActivity == Init /\ [][NextActivity]_vars

\* The activity endpoints over a longer time: events are logged, a baseline
\* is set, and 15 days later (the events have left the 14-day window) the
\* baseline is set again
NextBaseline ==
    \/ \E p \in Patients, d \in Durations : LogActivity(p, "walking", d, <<>>)
    \/ \E p \in Patients : AnalyzeDailyPatterns(p, BaselineDays)
    \/ \E p \in Patients : SetBaseline(p)
    \/ RespondActivity
    \/ Advance(BaselineDays + 1)

SpecBaseline == Init /\ [][NextBaseline]_vars

\* The three safety services side by side, one request at a time (the
\* endpoints are coroutines that never await, so each runs to completion),
\* driven with a few inputs each: a zone that is always active, fixes inside
\* and outside it, a batch that is a fall (2.55 g, then free fall) and one
\* that is not, and one kind of activity event
Idle == gps_call = NoCall /\ fall_call = NoCall /\ act_call = NoCall

EngineZoneInputs == {z \in ValidZoneInputs : z.times = <<>>}
EngineFixLats == {FarLat, HomeLat}
EngineBatches ==
    { << [x |-> 1500, y |-> 2000, z |-> 0, timestamp |-> 1],
         [x |-> 0, y |-> 0, z |-> 0, timestamp |-> 2],
         [x |-> 0, y |-> 0, z |-> 0, timestamp |-> 3] >>,
      << [x |-> 0, y |-> 0, z |-> 981, timestamp |-> 1] >> }

NextEngine ==
    \/ Idle /\ CreateSafeZoneFrom(EngineZoneInputs)
    \/ Idle /\ \E p \in Patients, lat \in EngineFixLats : CheckLocation(p, lat, MeridianLon, T1000)
    \/ Idle /\ \E p \in Patients, b \in EngineBatches : AnalyzeAccelerometerData(p, b, 1)
    \/ Idle /\ \E p \in Patients : LogActivity(p, "walking", 60, <<>>)
    \/ Idle /\ \E p \in Patients : AnalyzeDailyPatterns(p, 1)
    \/ Idle /\ \E p \in Patients : SetBaseline(p)
    \/ RespondGPS
    \/ RespondFall
    \/ RespondActivity

SpecEngine == Init /\ [][NextEngine]_vars

\* The activity endpoints under concurrent requests
NextLoop ==
    \/ \E r \in Requests, p \in Patients : Accept(r, "log_activity", p, 0)
    \/ \E r \in Requests, p \in Patients : Accept(r, "analyze_daily_patterns", p, 28)
    \/ \E r \in Requests, p \in Patients : Accept(r, "set_baseline", p, BaselineDays)
    \/ \E r \in Requests : HandlerLog(r)
    \/ \E r \in Requests : HandlerFilter(r)
    \/ \E r \in Requests : HandlerAggregate(r)
    \/ \E r \in Requests : HandlerStore(r)

SpecLoop == Init /\ [][NextLoop]_vars

\* Inputs of the analysis endpoints: a sample at rest, a step peak and a
\* lateral sway of magnitude 10 m/s^2; the samples of a batch are stamped one
\* second apart, or all with the same second
GaitSampleKinds ==
    { [x |-> 0, y |-> 0, z |-> 981],
      [x |-> 0, y |-> 0, z |-> 1500],
      [x |-> 600, y |-> 0, z |-> 800] }

RECURSIVE GaitBatchesUpTo(_, _)
GaitBatchesUpTo(n, ticking) ==
    IF n = 0 THEN {<<>>}
    ELSE LET shorter == GaitBatchesUpTo(n - 1, ticking)
         IN shorter \cup
            { Append(b, [x |-> s.x, y |-> s.y, z |-> s.z,
                         timestamp |-> IF ticking THEN n ELSE 0]) :
                b \in {c \in shorter : Len(c) = n - 1}, s \in GaitSampleKinds }
GaitBatches == GaitBatchesUpTo(MaxGaitBatch, TRUE) \cup GaitBatchesUpTo(MaxGaitBatch, FALSE)

Optional(S) == {<<>>} \cup {<<b>> : b \in S}
SpeechBodies == {[cognitive_score |-> 90], [cognitive_score |-> 20]}
EyeTrackingBodies == {[risk_score |-> 100], [risk_score |-> 900]}
\* sleep sessions: total sleep 0, 300 or 480 minutes with a quarter or a
\* tenth of it REM, 2 or 12 awakenings, efficiency 0, 80, 90 or 100 percent
SleepSessions ==
    { [total_sleep_min |-> t, rem_min |-> r, deep_min |-> 0, awakenings |-> a,
       efficiency |-> e] :
        t \in {0, 300, 480}, r \in {0, 30, 120}, a \in {2, 12}, e \in {0, 80, 90, 100} }
RECURSIVE SessionListsUpTo(_)
SessionListsUpTo(n) ==
    IF n = 0 THEN {<<>>}
    ELSE LET shorter == SessionListsUpTo(n - 1)
         IN shorter \cup {Append(b, x) : b \in {c \in shorter : Len(c) = n - 1},
                                         x \in SleepSessions}
SessionLists == SessionListsUpTo(MaxSessions)
GoodNight == [total_sleep_min |-> 480, rem_min |-> 120, deep_min |-> 0,
              awakenings |-> 2, efficiency |-> 90]
SleepBodies == {[sleep_sessions |-> <<GoodNight>>]}
SentimentBodies == {[sentiment_label |-> "neutral"]}

NextAdvanced ==
    \/ adv_call = NoCall /\ \E b \in GaitBatches : AnalyzeGaitData(b)
    \/ adv_call = NoCall /\ \E l \in SessionLists : AnalyzeSleepData(l)
    \/ adv_call = NoCall /\ \E p \in Patients, sp \in Optional(SpeechBodies), ey \in Optional(EyeTrackingBodies),
          ga \in Optional(GaitBatches), sl \in Optional(SleepBodies),
          se \in Optional(SentimentBodies) :
          ComprehensiveAssessment(p, sp, ey, ga, sl, se)
    \/ RespondAdvanced

SpecAdvanced == Init /\ [][NextAdvanced]_vars

\* Inputs of the eye-tracking endpoint: a fixation of normal length, a long
\* and a brief one; a saccade of normal velocity and a slow one; a test of
\* 10 seconds or of no duration
FixationKinds ==
    { [x |-> 0, y |-> 0, duration |-> 300],
      [x |-> 30, y |-> 40, duration |-> 600],
      [x |-> 0, y |-> 10, duration |-> 100] }
SaccadeKinds ==
    { [start_x |-> 0, start_y |-> 0, end_x |-> 3, end_y |-> 4, velocity |-> 350],
      [start_x |-> 0, start_y |-> 0, end_x |-> 6, end_y |-> 8, velocity |-> 100] }
TestDurations == {0, 10}

RECURSIVE ListsUpTo(_, _)
ListsUpTo(S, n) ==
    IF n = 0 THEN {<<>>}
    ELSE LET shorter == ListsUpTo(S, n - 1)
         IN shorter \cup {Append(b, x) : b \in {c \in shorter : Len(c) = n - 1}, x \in S}

NextGaze ==
    \/ \E f \in ListsUpTo(FixationKinds, MaxGazeEvents),
          s \in ListsUpTo(SaccadeKinds, MaxGazeEvents), d \in TestDurations :
          AnalyzeGazeData(f, s, d)
    \/ RespondAdvanced

SpecGaze == Init /\ [][NextGaze]_vars

\* The helpers of the speech analysis, applied to metrics with a speech rate
\* from silence to 250 words per minute and to transcripts of up to
\* MaxWords words: the first v words of the vocabulary said over and over
SpeechRates == {0, 50, 100, 150, 175, 200, 250}
Thousandths == {0, 500, 1000}
SpeechMetrics ==
    [speech_rate : SpeechRates, pause_ratio : {0, 100}, word_finding_score : {0},
     coherence : Thousandths, vocabulary_diversity : {500}, repetition_rate : {0, 50},
     filler_ratio : {0}]
Cyclic(n, v) == [k \in 1..n |-> ((k - 1) % v) + 1]
Transcripts == {Cyclic(n, v) : n \in 0..MaxWords, v \in 1..MaxWords}

NextSpeech ==
    \/ \E m \in SpeechMetrics : CalculateCognitiveScore(m)
    \/ \E w \in Transcripts : DetectRepetitions(w)
    \/ RespondAdvanced

SpecSpeech == Init /\ [][NextSpeech]_vars

\* The gait endpoint alone, with batches long enough for two equal samples
\* to stand above mean + std
StepBatches == GaitBatchesUpTo(MaxStepBatch, TRUE)

NextGait ==
    \/ \E b \in StepBatches : AnalyzeGaitData(b)
    \/ RespondAdvanced

SpecGait == Init /\ [][NextGait]_vars

\* The two alerting services next to the combined assessment endpoint, each
\* taking its own requests: an assessment may be answered before, after or
\* around a location check or a fall analysis
NextSafetyPath ==
    \/ CreateSafeZoneFrom(EngineZoneInputs)
    \/ \E p \in Patients, lat \in EngineFixLats : CheckLocation(p, lat, MeridianLon, T1000)
    \/ \E p \in Patients, b \in EngineBatches : AnalyzeAccelerometerData(p, b, 1)
    \/ \E p \in Patients, sp \in Optional(SpeechBodies) :
          ComprehensiveAssessment(p, sp, <<>>, <<>>, <<>>, <<>>)
    \/ RespondGPS
    \/ RespondFall
    \/ RespondAdvanced

SpecSafetyPath == Init /\ [][NextSafetyPath]_vars

----------------------------------------------------------------------------
(* Properties of GPSWanderingService                                       *)

\* the spec's notions, stated on a stored zone
ZoneActiveAt(zone, t) ==
    /\ zone.enabled
    /\ \E k \in DOMAIN zone.active_times :
          LET w == zone.active_times[k]
          IN  w.start[1] * 3600 + w.start[2] * 60 <= t
              /\ t <= w.end[1] * 3600 + w.end[2] * 60
ZoneContains(zone, lat, lon) ==
    CalculateDistance(lat, lon, zone.center.latitude, zone.center.longitude)
        <= zone.radius_meters
SomeZoneActive(p, t) ==
    \E i \in DOMAIN safe_zones[p] : ZoneActiveAt(safe_zones[p][i], t)
SomeActiveZoneContains(p, lat, lon, t) ==
    \E i \in DOMAIN safe_zones[p] :
        ZoneActiveAt(safe_zones[p][i], t) /\ ZoneContains(safe_zones[p][i], lat, lon)

\* a step that is a call of check_location
IsCheckStep == gps_call = NoCall /\ gps_call'.op = "check_location"

\* C2: check_location triggers a wandering alert if and only if some enabled
\* zone of the patient is active at the fix's time of day and no active zone
\* contains the fix; when it triggers, exactly one alert of type wandering
\* and severity high is appended to wandering_alerts and returned, and when
\* it does not, wandering_alerts is left as it was.
C2_AlertIffActiveAndOutside ==
    [][IsCheckStep =>
        LET c == gps_call'
            due == SomeZoneActive(c.patient_id, c.timestamp)
                   /\ ~SomeActiveZoneContains(c.patient_id, c.latitude,
                                               c.longitude, c.timestamp)
        IN  /\ gps_result'.alert_triggered <=> due
            /\ due => /\ "alert" \in DOMAIN gps_result'
                       /\ wandering_alerts' = Append(wandering_alerts, gps_result'.alert)
                       /\ gps_result'.alert.alert_type = "wandering"
                       /\ gps_result'.alert.severity = "high"
                       /\ gps_result'.alert.patient_id = c.patient_id
            /\ ~due => /\ "alert" \notin DOMAIN gps_result'
                        /\ wandering_alerts' = wandering_alerts
    ]_vars

\* C2 witness: an alert was triggered for a patient with two zones, one of
\* them inactive at the time of the fix, while an earlier alert is on record
C2_Witness ==
    /\ gps_call.op = "check_location"
    /\ gps_result.alert_triggered
    /\ Len(safe_zones[gps_call.patient_id]) = 2
    /\ \E i \in 1..2 : ~ZoneActiveAt(safe_zones[gps_call.patient_id][i], gps_call.timestamp)
    /\ Len(wandering_alerts) = 2

\* C3: when no zone of the patient is active at the check time (or the
\* patient has no zone), check_location returns alert_triggered = FALSE with
\* no alert, whatever the distance of the fix from any zone centre, and
\* wandering_alerts is unchanged.
C3_NoActiveZoneNoAlert ==
    [][(IsCheckStep /\ ~SomeZoneActive(gps_call'.patient_id, gps_call'.timestamp)) =>
        /\ gps_result'.kind = "check"
        /\ gps_result'.alert_triggered = FALSE
        /\ gps_result'.active_zones = <<>>
        /\ "alert" \notin DOMAIN gps_result'
        /\ wandering_alerts' = wandering_alerts
    ]_vars

\* C3 witness: a fix far outside the patient's only zone, checked outside
\* that zone's active window, triggered nothing
C3_Witness ==
    /\ gps_call.op = "check_location"
    /\ gps_call.latitude = FarLat
    /\ Len(safe_zones[gps_call.patient_id]) = 1
    /\ ~ZoneActiveAt(safe_zones[gps_call.patient_id][1], gps_call.timestamp)
    /\ ~ZoneContains(safe_zones[gps_call.patient_id][1], gps_call.latitude, gps_call.longitude)
    /\ gps_result.alert_triggered = FALSE

MaxLatitude == Deg(90, 0)
MaxLongitude == Deg(180, 0)
ValidCoordinates(lat, lon) == Abs(lat) <= MaxLatitude /\ Abs(lon) <= MaxLongitude

\* C8: invalid input is rejected before anything is computed or stored: a
\* create_safe_zone call with a negative radius or an out-of-range centre and
\* a check_location call with an out-of-range fix yield an invalid-input
\* outcome, and no stored zone, location record or alert carries such values.
C8_InvalidInputRejected ==
    /\ (gps_call.op = "create_safe_zone"
          /\ (gps_call.radius_meters < 0
               \/ ~ValidCoordinates(gps_call.center_lat, gps_call.center_lon)))
        => gps_result.kind = "invalid_input"
    /\ (gps_call.op = "check_location"
          /\ ~ValidCoordinates(gps_call.latitude, gps_call.longitude))
        => gps_result.kind = "invalid_input"
    /\ \A p \in Patients :
          /\ \A i \in DOMAIN safe_zones[p] :
                /\ safe_zones[p][i].radius_meters >= 0
                /\ ValidCoordinates(safe_zones[p][i].center.latitude,
                                    safe_zones[p][i].center.longitude)
          /\ \A i \in DOMAIN location_history[p] :
                ValidCoordinates(location_history[p][i].latitude,
                                 location_history[p][i].longitude)
    /\ \A i \in DOMAIN wandering_alerts :
          ValidCoordinates(wandering_alerts[i].location.latitude,
                           wandering_alerts[i].location.longitude)

\* C18: a fix exactly at the centre of an enabled zone with positive radius,
\* checked at a time inside one of that zone's active windows, is answered
\* inside_safe_zone = TRUE with no alert, whatever other zones the patient
\* has and in whatever order they were created.
C18_CentreIsInside ==
    [][(IsCheckStep
         /\ \E i \in DOMAIN safe_zones[gps_call'.patient_id] :
               LET zone == safe_zones[gps_call'.patient_id][i]
               IN  /\ zone.center.latitude = gps_call'.latitude
                   /\ zone.center.longitude = gps_call'.longitude
                   /\ zone.radius_meters > 0
                   /\ ZoneActiveAt(zone, gps_call'.timestamp))
       => /\ gps_result'.inside_safe_zone = TRUE
          /\ gps_result'.alert_triggered = FALSE
          /\ "alert" \notin DOMAIN gps_result'
          /\ wandering_alerts' = wandering_alerts
    ]_vars

\* C18 witness: a fix at the centre of the second zone of a patient was
\* found inside, the first zone being active too and not containing it
C18_Witness ==
    /\ gps_call.op = "check_location"
    /\ Len(safe_zones[gps_call.patient_id]) = 2
    /\ LET first == safe_zones[gps_call.patient_id][1]
           second == safe_zones[gps_call.patient_id][2]
       IN  /\ second.center.latitude = gps_call.latitude
           /\ ZoneActiveAt(second, gps_call.timestamp)
           /\ ZoneActiveAt(first, gps_call.timestamp)
           /\ ~ZoneContains(first, gps_call.latitude, gps_call.longitude)
    /\ gps_result.inside_safe_zone
    /\ ~gps_result.alert_triggered

\* C23: a safe zone created without active_times is active at every time of
\* day, to the second: whenever a patient has such a zone (enabled) and none
\* of the patient's zones contains the fix, check_location lists the zone as
\* active and triggers a wandering alert.
C23_DefaultZoneAlwaysActive ==
    [][(/\ IsCheckStep
        /\ \E i \in DOMAIN safe_zones[gps_call'.patient_id] :
              /\ safe_zones[gps_call'.patient_id][i].enabled
              /\ safe_zones[gps_call'.patient_id][i].active_times = DefaultActiveTimes
        /\ \A j \in DOMAIN safe_zones[gps_call'.patient_id] :
              ~ZoneContains(safe_zones[gps_call'.patient_id][j],
                            gps_call'.latitude, gps_call'.longitude))
       => /\ gps_result'.active_zones # <<>>
          /\ gps_result'.alert_triggered
          /\ wandering_alerts' = Append(wandering_alerts, gps_result'.alert)
    ]_vars

\* a window whose start time is later than its end time
StartsAfterEnd(w) == w.start[1] * 60 + w.start[2] > w.end[1] * 60 + w.end[2]
OnlyReversedWindows(zone) ==
    \A k \in DOMAIN zone.active_times : StartsAfterEnd(zone.active_times[k])

\* C27: an active window whose start is later than its end never makes its
\* zone active: check_location never lists a zone with only such windows as
\* active, and for a patient all of whose zones are such it triggers no
\* alert and records none, at any time of day and wherever the fix is.
C27_ReversedWindowNeverActive ==
    [][IsCheckStep =>
        LET zones == safe_zones[gps_call'.patient_id]
        IN  /\ \A i \in DOMAIN zones :
                  OnlyReversedWindows(zones[i]) =>
                      \A j \in DOMAIN gps_result'.active_zones :
                          gps_result'.active_zones[j] # zones[i].name
            /\ (\A i \in DOMAIN zones : OnlyReversedWindows(zones[i])) =>
                  /\ gps_result'.alert_triggered = FALSE
                  /\ gps_result'.inside_safe_zone = FALSE
                  /\ "alert" \notin DOMAIN gps_result'
                  /\ wandering_alerts' = wandering_alerts
    ]_vars

\* C27 witness: at 23:00, inside the hours the 22:00-06:00 window was meant
\* to cover, a fix far outside the patient's only zone triggered nothing
C27_Witness ==
    /\ gps_call.op = "check_location"
    /\ gps_call.timestamp = T2300
    /\ gps_call.latitude = FarLat
    /\ Len(safe_zones[gps_call.patient_id]) = 1
    /\ safe_zones[gps_call.patient_id][1].active_times = NightActiveTimes
    /\ gps_result.active_zones = <<>>
    /\ gps_result.alert_triggered = FALSE

\* the fix of the starting check_location call is the one already recorded
\* last for the patient: the same call is being repeated
RepeatsLastCheck ==
    LET h == location_history[gps_call'.patient_id]
    IN  /\ IsCheckStep
        /\ h # <<>>
        /\ h[Len(h)] = [latitude |-> gps_call'.latitude,
                        longitude |-> gps_call'.longitude,
                        timestamp |-> gps_call'.timestamp]

\* C16: check_location is idempotent: a second call with the same patient,
\* fix and timestamp leaves location_history and wandering_alerts exactly as
\* the first call left them.
C16_CheckLocationIdempotent ==
    [][RepeatsLastCheck =>
        /\ location_history' = location_history
        /\ wandering_alerts' = wandering_alerts
    ]_vars

----------------------------------------------------------------------------
(* Properties of FallDetectionService                                      *)

\* the spec's notions, stated on a batch: sample i is an impact, and the
\* 2*samplingRateHz samples that follow it lie in the batch and average
\* below 1.5 g
IsImpact(readings, i) == Magnitude(readings[i]) * 10 > 25 * G
QuietAfter(readings, i, rate) ==
    /\ i + 2 * rate <= Len(readings)
    /\ SeqSum([k \in 1..(2 * rate) |-> Magnitude(readings[i + k])]) * 10
         < 15 * G * 2 * rate
QualifyingImpact(readings, rate) ==
    \E i \in DOMAIN readings : IsImpact(readings, i) /\ QuietAfter(readings, i, rate)

\* the largest magnitude of a non-empty batch, in thousandths of g
MaxObservedG(readings) ==
    LET mags == {Magnitude(readings[k]) : k \in DOMAIN readings}
    IN  ((CHOOSE a \in mags : \A b \in mags : b <= a) * 1000) \div G

IsFallStep == fall_call = NoCall /\ fall_call'.op = "analyze_accelerometer_data"

\* the window of the same length counted from the impact sample itself, the
\* slice the source averages
QuietFrom(readings, i, rate) ==
    /\ i + 2 * rate <= Len(readings)
    /\ SeqSum([k \in 1..(2 * rate) |-> Magnitude(readings[i + k - 1])]) * 10
         < 15 * G * 2 * rate

\* C1: no missed fall: whenever some sample of the batch exceeds 2.5 g and the
\* 2*samplingRateHz samples after it lie in the batch and average below 1.5 g,
\* the call returns a fall alert and that alert is the newest entry of
\* fall_history, whichever sample of the batch is the largest.  The impact is
\* taken here to be quiet under both readings of "the window that follows"
\* (counted after the impact sample and counted from it), so that a violation
\* does not rest on which of the two is meant.
C1_NoMissedFall ==
    (fall_call.op = "analyze_accelerometer_data"
       /\ \E i \in DOMAIN fall_call.accelerometer_readings :
            /\ IsImpact(fall_call.accelerometer_readings, i)
            /\ QuietAfter(fall_call.accelerometer_readings, i, fall_call.sampling_rate_hz)
            /\ QuietFrom(fall_call.accelerometer_readings, i, fall_call.sampling_rate_hz))
    => /\ fall_result.kind = "alert"
       /\ fall_history # <<>>
       /\ fall_history[Len(fall_history)].alert_type = "fall_detected"
       /\ fall_history[Len(fall_history)].patient_id = fall_call.patient_id

C13_FallAlertsCriticalNoAutoCall ==
    \A i \in DOMAIN fall_history :
        /\ fall_history[i].alert_type = "fall_detected"
        /\ fall_history[i].severity = "critical"
        /\ fall_history[i].confidence = 85
        /\ fall_history[i].auto_emergency_call = (fall_history[i].confidence > 90)
        /\ fall_history[i].auto_emergency_call = FALSE

\* C13 witness: two falls are on record, the newest just returned
C13_Witness ==
    /\ fall_result.kind = "alert"
    /\ Len(fall_history) = 2
    /\ fall_history[2].alert_id = fall_result.alert_id

\* the fields of an alert record
AlertFields ==
    {"alert_id", "patient_id", "alert_type", "timestamp", "confidence",
     "impact_force", "status", "severity", "auto_emergency_call"}

\* C26: when a fall is detected, analyze_accelerometer_data returns the
\* alert record itself (the one it has just appended to fall_history),
\* which has no field fall_detected; a result has the field fall_detected
\* only with the value false, so no result carries fall_detected = true.
C26_NoResultSaysFallDetected ==
    fall_call.op = "analyze_accelerometer_data" =>
        /\ FallDecision(fall_call.accelerometer_readings, fall_call.sampling_rate_hz) =>
              /\ DOMAIN fall_result = AlertFields \cup {"kind"}
              /\ fall_history # <<>>
              /\ [f \in AlertFields |-> fall_result[f]] = fall_history[Len(fall_history)]
        /\ "fall_detected" \in DOMAIN fall_result => fall_result.fall_detected = FALSE
        /\ \A i \in DOMAIN fall_history : "fall_detected" \notin DOMAIN fall_history[i]

\* C26 witness: the first fall on record has just been returned: a record of
\* type fall_detected with no field of that name
C26_Witness ==
    /\ fall_call.op = "analyze_accelerometer_data"
    /\ FallDecision(fall_call.accelerometer_readings, fall_call.sampling_rate_hz)
    /\ fall_result.alert_type = "fall_detected"
    /\ "fall_detected" \notin DOMAIN fall_result
    /\ Len(fall_history) = 1

----------------------------------------------------------------------------
(* Properties of ActivityMonitoringService                                 *)

\* the events of a patient inside the trailing window of the given days
InWindow(p, days) ==
    {i \in DOMAIN activity_patterns[p] : activity_patterns[p][i].timestamp > now - days}

RECURSIVE MinutesOf(_, _)
MinutesOf(p, idx) ==
    IF idx = {} THEN 0
    ELSE LET i == CHOOSE j \in idx : TRUE
         IN activity_patterns[p][i].duration_minutes + MinutesOf(p, idx \ {i})

\* minutes of one activity type, and of all types, inside the window
TypeMinutes(p, days, type) ==
    MinutesOf(p, {i \in InWindow(p, days) : activity_patterns[p][i].activity_type = type})
WindowMinutes(p, days) == MinutesOf(p, InWindow(p, days))

\* minutes per type for the types met inside the window
Breakdown(p, days) ==
    LET types == {activity_patterns[p][i].activity_type : i \in InWindow(p, days)}
    IN  [t \in types |-> TypeMinutes(p, days, t)]

HasAnomaly(result, type) ==
    \E k \in DOMAIN result.anomalies : result.anomalies[k].type = type

AnalysisDone ==
    /\ act_call.op = "analyze_daily_patterns"
    /\ "anomalies" \in DOMAIN act_result

\* C5: sleep is judged per day: excessive_sleep is reported exactly when the
\* sleeping minutes of the window divided by windowDays exceed 12 hours, and
\* insufficient_sleep exactly when they are below 5 hours (so a patient who
\* sleeps between 5 and 12 hours on each day of the window gets neither).
C5_SleepJudgedPerDay ==
    AnalysisDone =>
        LET sleep == TypeMinutes(act_call.patient_id, act_call.analysis_days, "sleeping")
            days == act_call.analysis_days
        IN  /\ HasAnomaly(act_result, "excessive_sleep") <=> sleep > 720 * days
            /\ HasAnomaly(act_result, "insufficient_sleep") <=> sleep < 300 * days

\* C9: for a window holding at least one event, reduced_activity (severity
\* medium) is reported exactly when a baseline is stored for the patient and
\* dailyAverage = totalMinutes / windowDays is strictly below 0.6 times the
\* baseline's daily average; without a baseline the analysis still succeeds
\* and reports no reduced_activity.
C9_ReducedActivityIffBelowBaseline ==
    (act_call.op = "analyze_daily_patterns"
       /\ InWindow(act_call.patient_id, act_call.analysis_days) # {})
    => LET p == act_call.patient_id
           days == act_call.analysis_days
           total == WindowMinutes(p, days)
       IN  /\ "anomalies" \in DOMAIN act_result
           /\ act_result.daily_activity_average_minutes = [num |-> total, den |-> days]
           /\ HasAnomaly(act_result, "reduced_activity")
                <=> /\ p \in DOMAIN baseline_patterns
                    /\ 10 * total * baseline_patterns[p].daily_average.den
                         < 6 * baseline_patterns[p].daily_average.num * days
           /\ \A k \in DOMAIN act_result.anomalies :
                 act_result.anomalies[k].type = "reduced_activity"
                     => act_result.anomalies[k].severity = "medium"

\* C9 witness: an analysis whose daily average lies between 0.4 and 0.6 of
\* the stored baseline reported reduced_activity
C9_Witness ==
    /\ AnalysisDone
    /\ act_call.patient_id \in DOMAIN baseline_patterns
    /\ HasAnomaly(act_result, "reduced_activity")
    /\ LET b == baseline_patterns[act_call.patient_id].daily_average
           a == act_result.daily_activity_average_minutes
       IN  10 * a.num * b.den > 4 * b.num * a.den

\* C9 witness of the other side: an analysis of a patient with no baseline
C9_WitnessNoBaseline ==
    /\ AnalysisDone
    /\ act_call.patient_id \notin DOMAIN baseline_patterns

IsSetBaselineStep == act_call = NoCall /\ act_call'.op = "set_baseline"

\* C10: when the patient has an event in the trailing 14 days, set_baseline
\* replaces the patient's baseline by the aggregate of exactly that window
\* (daily average = minutes in the window / 14, with the per-type breakdown),
\* whatever was stored before and whatever analyses were run before; the
\* baselines of the other patients stay as they were.
C10_BaselineIsFourteenDayAggregate ==
    [][(IsSetBaselineStep /\ InWindow(act_call'.patient_id, 14) # {}) =>
        LET p == act_call'.patient_id
        IN  /\ p \in DOMAIN baseline_patterns'
            /\ baseline_patterns'[p] =
                  [daily_average |-> [num |-> WindowMinutes(p, 14), den |-> 14],
                   activity_breakdown |-> Breakdown(p, 14),
                   set_at |-> now]
            /\ DOMAIN baseline_patterns' = DOMAIN baseline_patterns \cup {p}
            /\ \A q \in DOMAIN baseline_patterns \ {p} :
                  baseline_patterns'[q] = baseline_patterns[q]
    ]_vars

\* C10 witness: a baseline was set from a log that also holds an event older
\* than 14 days, which the baseline leaves out
C10_Witness ==
    /\ act_call.op = "set_baseline"
    /\ act_call.patient_id \in DOMAIN baseline_patterns
    /\ baseline_patterns[act_call.patient_id].set_at = now
    /\ InWindow(act_call.patient_id, 14) # DOMAIN activity_patterns[act_call.patient_id]
    /\ baseline_patterns[act_call.patient_id].daily_average.num
          = WindowMinutes(act_call.patient_id, 14)

\* C29: set_baseline for a patient with no activity event in the trailing 14
\* days changes nothing: an existing baseline stays as it was, none is
\* created where none existed, the other patients' baselines and the log
\* are untouched, and the endpoint still answers "Baseline set successfully".
C29_SetBaselineWithoutDataKeepsBaseline ==
    [][(IsSetBaselineStep /\ InWindow(act_call'.patient_id, BaselineDays) = {}) =>
        /\ baseline_patterns' = baseline_patterns
        /\ activity_patterns' = activity_patterns
        /\ act_result'.kind = "baseline"
        /\ act_result'.message = "Baseline set successfully"
        /\ act_result'.patient_id = act_call'.patient_id
    ]_vars

\* C29 witness: set_baseline has just answered for a patient whose events
\* are all older than 14 days and whose baseline dates from 15 days ago
C29_Witness ==
    /\ act_call.op = "set_baseline"
    /\ activity_patterns[act_call.patient_id] # <<>>
    /\ InWindow(act_call.patient_id, BaselineDays) = {}
    /\ act_call.patient_id \in DOMAIN baseline_patterns
    /\ baseline_patterns[act_call.patient_id].set_at = now - (BaselineDays + 1)
    /\ act_result.message = "Baseline set successfully"

\* C29 witness: set_baseline has just answered for a patient with no event
\* and no baseline, and there is still none
C29_WitnessNoBaseline ==
    /\ act_call.op = "set_baseline"
    /\ activity_patterns[act_call.patient_id] = <<>>
    /\ act_call.patient_id \notin DOMAIN baseline_patterns
    /\ baseline_patterns # <<>>
    /\ act_result.message = "Baseline set successfully"

----------------------------------------------------------------------------
(* Properties of the analysis endpoints                                    *)

\* the gait analyzer fails inside the running combined assessment
GaitFailsInAssessment ==
    /\ adv_call.op = "comprehensive_assessment"
    /\ adv_call.gait_data # <<>>
    /\ GaitRaises(adv_call.gait_data[1])

\* C6: in the combined assessment a modality whose analyzer fails is treated
\* as absent: the assessment is not aborted, the reports of the other
\* supplied modalities are returned, and the overall risk is the mean over
\* the modalities that succeeded.
C6_FailedModalityTreatedAsAbsent ==
    GaitFailsInAssessment =>
        LET others == Assessments(adv_call.speech_data, adv_call.eye_tracking_data,
                                  <<>>, adv_call.sleep_data, adv_call.sentiment_data)
        IN  /\ adv_result.kind = "assessment"
            /\ adv_result.assessments = others
            /\ adv_result.overall_risk_score = OverallRisk(RiskScores(others))

\* C7: analyze_gait_data on an empty accelerometer batch returns an explicit
\* insufficient_data result that carries no risk level and no fall-risk
\* score, and it does not raise.
C7_EmptyGaitBatchInsufficientData ==
    (adv_call.op = "analyze_gait_data" /\ adv_call.accelerometer_data = <<>>) =>
        /\ adv_result.kind # "http_error"
        /\ "status" \in DOMAIN adv_result
        /\ adv_result.status = "insufficient_data"
        /\ "risk_level" \notin DOMAIN adv_result
        /\ "fall_risk_score" \notin DOMAIN adv_result

\* C21: analyze_gaze_data given no fixations and no saccades reports
\* insufficient data as an explicit status, without raising, and returns no
\* risk score and no abnormality flags computed from the empty batch.
C21_EmptyGazeInsufficientData ==
    (adv_call.op = "analyze_gaze_data" /\ adv_call.fixations = <<>>
       /\ adv_call.saccades = <<>>) =>
        /\ adv_result.kind # "http_error"
        /\ "status" \in DOMAIN adv_result
        /\ adv_result.status = "insufficient_data"
        /\ "risk_score" \notin DOMAIN adv_result
        /\ "abnormalities" \notin DOMAIN adv_result

\* C25: the speech-rate term of the cognitive score penalizes deviation from
\* the 150 wpm baseline: at the baseline the term is 1.0 (it contributes its
\* full weight of 15 points), and with all other metrics fixed a rate
\* further from the baseline, on either side, never scores higher.
C25_RateTermPeaksAtBaseline ==
    adv_call.op = "calculate_cognitive_score" =>
        LET m == adv_call.metrics
            at(r) == CalculateCognitiveScoreOf([m EXCEPT !.speech_rate = r])
            without == adv_result.cognitive_score - RateScore(m.speech_rate) * 15
        IN  /\ at(BaselineWpm) = without + 1000 * 15
            /\ \A r \in SpeechRates :
                  (Abs(r - BaselineWpm) >= Abs(m.speech_rate - BaselineWpm)
                     /\ (r - BaselineWpm) * (m.speech_rate - BaselineWpm) >= 0)
                  => at(r) <= adv_result.cognitive_score

\* the distinct words of a transcript
DistinctWords(words) == {words[k] : k \in DOMAIN words}
NoWordTwice(words) == Cardinality(DistinctWords(words)) = Len(words)

\* C30 (as claimed): for a transcript of fewer than 20 words every distinct
\* word counts as an excessive repetition, so word_repetitions is the number
\* of distinct words and repetition_rate is positive even when no word
\* occurs twice; from 20 words on a word that occurs once is not counted.
C30_ShortTranscriptAllWordsExcessive ==
    adv_call.op = "detect_repetitions" =>
        LET words == adv_call.words
        IN  /\ Len(words) < 20 =>
                  /\ adv_result.word_repetitions = Cardinality(DistinctWords(words))
                  /\ adv_result.repetition_rate.num > 0
            /\ (Len(words) >= 20 /\ NoWordTwice(words)) =>
                  adv_result.word_repetitions = 0

\* C30 (amended): the same for a transcript of 1 to 19 words; a transcript
\* of no words has word_repetitions 0 and repetition_rate 0.
C30_ShortNonEmptyTranscriptAllWordsExcessive ==
    adv_call.op = "detect_repetitions" =>
        LET words == adv_call.words
        IN  /\ (0 < Len(words) /\ Len(words) < 20) =>
                  /\ adv_result.word_repetitions = Cardinality(DistinctWords(words))
                  /\ adv_result.repetition_rate.num > 0
                  /\ adv_result.repetition_rate.num >= Cardinality(DistinctWords(words))
            /\ words = <<>> =>
                  /\ adv_result.word_repetitions = 0
                  /\ adv_result.repetition_rate.num = 0
            /\ (Len(words) >= 20 /\ NoWordTwice(words)) =>
                  adv_result.word_repetitions = 0

\* C30 witness: 19 words, no word twice, were reported with 19 excessive
\* repetitions, no repeated phrase and severity high
C30_Witness ==
    /\ adv_call.op = "detect_repetitions"
    /\ Len(adv_call.words) = 19
    /\ NoWordTwice(adv_call.words)
    /\ adv_result.word_repetitions = 19
    /\ adv_result.phrase_repetitions = 0
    /\ adv_result.severity = "high"

\* C28: analyze_gait_data raises (the cadence divides by zero) and returns
\* no report for every batch of two or more samples whose first and last
\* timestamps are equal; for a batch of one sample it returns a report with
\* cadence 0.
C28_EqualTimestampsRaise ==
    adv_call.op = "analyze_gait_data" =>
        LET data == adv_call.accelerometer_data
        IN  /\ (Len(data) >= 2 /\ data[1].timestamp = data[Len(data)].timestamp) =>
                  /\ adv_result = HttpError
                  /\ "cadence_steps_per_min" \notin DOMAIN adv_result
            /\ Len(data) = 1 =>
                  /\ adv_result.kind = "gait"
                  /\ adv_result.cadence_steps_per_min = 0
                  /\ adv_result.step_count = 0

\* C28 witness: a batch of four samples, all stamped with the same second,
\* made the analysis fail
C28_Witness ==
    /\ adv_call.op = "analyze_gait_data"
    /\ Len(adv_call.accelerometer_data) = 4
    /\ \A k \in 1..4 : adv_call.accelerometer_data[k].timestamp = 0
    /\ adv_result.kind = "http_error"

\* sample i opens a plateau of the series: a run m[i..j] of equal values
\* with a lower sample right before it and a lower sample right after it
\* (a single sample higher than both neighbours is a plateau of length one)
PlateauStart(m, i) ==
    /\ i > 1
    /\ m[i - 1] < m[i]
    /\ \E j \in i..(Len(m) - 1) :
          /\ \A k \in i..j : m[k] = m[i]
          /\ m[j + 1] < m[i]

\* C24: a sample counts as a step exactly when it is an interior local
\* maximum of the magnitude series above mean + std, a plateau of equal
\* maximal samples counting once, at its first sample: the reported
\* step_count is the number of such samples.
C24_StepsAreLocalMaximaPlateauFirst ==
    (adv_call.op = "analyze_gait_data" /\ adv_result.kind = "gait") =>
        LET m == Magnitudes(adv_call.accelerometer_data)
        IN  adv_result.step_count
              = Cardinality({i \in DOMAIN m : PlateauStart(m, i) /\ AboveThreshold(m, i)})

\* a score in thousandths lies in [0, 1]; nan lies in no range
InUnitRange(v) == ~IsNaN(v) /\ 0 <= v /\ v <= 1000
\* a sleep report's quality score, if it has one, lies in [0, 100]
SleepScoreInRange(report) ==
    "sleep_quality_score" \in DOMAIN report =>
        /\ 0 <= report.sleep_quality_score.num
        /\ report.sleep_quality_score.num <= 100 * report.sleep_quality_score.den

\* C19: every analyzer's score stays in its documented range for every
\* input: the gait fall-risk score and the eye-tracking risk score in [0, 1],
\* the sleep quality score and the speech cognitive score in [0, 100], the
\* activity risk score in [0, 100]; stated on the result of each endpoint
\* and on every report inside a combined assessment.
C19_ScoresInRange ==
    /\ adv_result.kind = "gait" => InUnitRange(adv_result.fall_risk_score)
    /\ adv_result.kind = "sleep" => SleepScoreInRange(adv_result)
    /\ adv_result.kind = "assessment" =>
          LET a == adv_result.assessments
          IN  /\ "gait" \in DOMAIN a => InUnitRange(a.gait.fall_risk_score)
              /\ "eye_tracking" \in DOMAIN a => InUnitRange(a.eye_tracking.risk_score)
              /\ "sleep" \in DOMAIN a => SleepScoreInRange(a.sleep)
              /\ "speech" \in DOMAIN a => a.speech.cognitive_score \in 0..100
    /\ (act_result.kind = "analysis" /\ "risk_score" \in DOMAIN act_result)
          => act_result.risk_score \in 0..100

\* C20: sleep quality is strictly monotone in efficiency: a session list
\* that differs from the analysed one only by a higher efficiency in one
\* session gets a strictly higher sleep_quality_score.
C20_SleepQualityMonotoneInEfficiency ==
    (adv_call.op = "analyze_sleep_data" /\ adv_call.sleep_sessions # <<>>) =>
        \A k \in DOMAIN adv_call.sleep_sessions, e \in 0..100 :
            e > adv_call.sleep_sessions[k].efficiency =>
                LET higher == [adv_call.sleep_sessions EXCEPT ![k].efficiency = e]
                    q1 == adv_result.sleep_quality_score
                    q2 == SleepAnalysis(higher).sleep_quality_score
                IN  /\ q2.den = q1.den
                    /\ q2.num > q1.num

\* C20 witness: two nights were analysed, one of them with an efficiency of
\* 90 percent that can still be raised, and the score lies strictly inside
\* its range
C20_Witness ==
    /\ adv_call.op = "analyze_sleep_data"
    /\ Len(adv_call.sleep_sessions) = 2
    /\ adv_call.sleep_sessions[1].efficiency = 90
    /\ adv_call.sleep_sessions[2].efficiency = 0
    /\ adv_result.sleep_quality_score.num > 0
    /\ adv_result.sleep_quality_score.num < 100 * adv_result.sleep_quality_score.den

\* the modalities for which the running combined assessment was given data
SuppliedModalities ==
    {m \in {"speech", "eye_tracking", "gait", "sleep", "sentiment"} :
        \/ m = "speech" /\ adv_call.speech_data # <<>>
        \/ m = "eye_tracking" /\ adv_call.eye_tracking_data # <<>>
        \/ m = "gait" /\ adv_call.gait_data # <<>>
        \/ m = "sleep" /\ adv_call.sleep_data # <<>>
        \/ m = "sentiment" /\ adv_call.sentiment_data # <<>>}

AssessmentDone ==
    adv_call.op = "comprehensive_assessment" /\ adv_result.kind = "assessment"

\* C12: the overall risk of a combined assessment is the arithmetic mean of
\* the risk scores of exactly the supplied modality reports: one term per
\* supplied modality, none ignored; the level is high above 0.7, moderate
\* above 0.4 and low otherwise.
C12_OverallRiskIsMeanOfSupplied ==
    (AssessmentDone /\ SuppliedModalities # {}) =>
        LET overall == adv_result.overall_risk_score
        IN  /\ DOMAIN adv_result.assessments = SuppliedModalities
            /\ Len(RiskScores(adv_result.assessments)) = Cardinality(SuppliedModalities)
            /\ overall.den = Cardinality(SuppliedModalities)
            /\ adv_result.risk_level =
                  IF overall.num * 10 > 7 * overall.den * 1000 THEN "high"
                  ELSE IF overall.num * 10 > 4 * overall.den * 1000 THEN "moderate"
                  ELSE "low"

----------------------------------------------------------------------------
(* Properties of the services taken together                               *)

IsPrefix(old, new) ==
    /\ Len(old) <= Len(new)
    /\ \A i \in DOMAIN old : new[i] = old[i]

\* C14: alerts are immutable and the alert histories append-only: no step of
\* create_safe_zone, check_location or analyze_accelerometer_data (nor any
\* other step) removes, moves or changes an alert already recorded in
\* wandering_alerts or fall_history, its status included.
C14_AlertHistoriesAppendOnly ==
    [][/\ IsPrefix(wandering_alerts, wandering_alerts')
       /\ IsPrefix(fall_history, fall_history')]_vars

\* C14 witness: both histories hold two alerts, recorded in the order of
\* their identifiers and all still active
C14_Witness ==
    /\ Len(wandering_alerts) = 2
    /\ Len(fall_history) = 2
    /\ \A i \in 1..2 : /\ wandering_alerts[i].status = "active"
                       /\ fall_history[i].status = "active"
                       /\ fall_history[i].alert_id = i
    /\ safe_zones # [p \in Patients |-> <<>>]

\* a step that is a call of the combined assessment
IsAssessmentStep == adv_call = NoCall /\ adv_call'.op = "comprehensive_assessment"

\* C22: fall and wandering alerts bypass aggregation: a check_location call
\* triggers exactly when a zone of the patient is active and no active zone
\* contains the fix, an analyze_accelerometer_data call exactly when the
\* batch itself shows the fall, whatever the combined assessment has
\* answered or not answered; a detected event is appended to its history
\* and returned in that same call; and the combined assessment neither adds
\* nor changes an alert.
C22_AlertsBypassAggregation ==
    [][/\ IsCheckStep =>
            LET c == gps_call'
                due == SomeZoneActive(c.patient_id, c.timestamp)
                       /\ ~SomeActiveZoneContains(c.patient_id, c.latitude,
                                                   c.longitude, c.timestamp)
            IN  /\ gps_result'.alert_triggered <=> due
                /\ due => wandering_alerts' = Append(wandering_alerts, gps_result'.alert)
       /\ IsFallStep =>
            LET detected == FallDecision(fall_call'.accelerometer_readings,
                                         fall_call'.sampling_rate_hz)
            IN  /\ fall_result'.kind = "alert" <=> detected
                /\ detected => /\ Len(fall_history') = Len(fall_history) + 1
                                /\ fall_history'[Len(fall_history')].alert_id
                                     = fall_result'.alert_id
                /\ ~detected => fall_history' = fall_history
       /\ IsAssessmentStep => /\ wandering_alerts' = wandering_alerts
                               /\ fall_history' = fall_history
                               /\ gps_result' = gps_result
                               /\ fall_result' = fall_result
    ]_vars

\* C22 witness: a wandering alert and a fall alert have just been returned
\* and recorded while the combined assessment rates the risk low
C22_Witness ==
    /\ adv_result.kind = "assessment"
    /\ adv_result.risk_level = "low"
    /\ gps_call.op = "check_location"
    /\ gps_result.alert_triggered
    /\ wandering_alerts # <<>>
    /\ fall_result.kind = "alert"
    /\ fall_history # <<>>

\* C15: concurrent set_baseline and analyze_daily_patterns requests never
\* interleave: at most one handler is inside its body; set_baseline writes an
\* aggregate that is the one of the log as it stands at the write (no
\* log_activity took effect since the log was read); analyze_daily_patterns
\* returns the analysis of the log and baseline of one instant.
C15_HandlersDoNotInterleave ==
    [][/\ Cardinality({r \in Requests : InBody(handlers'[r])}) <= 1
       /\ \A r \in Requests :
            /\ (handlers[r].pc = "store" /\ handlers'[r].pc = "returned")
                 => /\ handlers[r].analysis = Analysis(handlers[r].patient_id, BaselineDays)
                    /\ baseline_patterns'
                         = StoreBaseline(handlers[r].patient_id,
                                         Analysis(handlers[r].patient_id, BaselineDays))
            /\ (handlers[r].pc = "aggregate" /\ handlers'[r].pc = "returned")
                 => handlers'[r].result
                      = Analysis(handlers[r].patient_id, handlers[r].analysis_days)
    ]_vars

\* C15 witness: set_baseline is about to write for a patient while a
\* log_activity and an analyze_daily_patterns request for the same patient
\* wait, a baseline from an earlier log being already stored
C15_Witness ==
    \E r, q1, q2 \in Requests :
        /\ handlers[r].pc = "store"
        /\ handlers[q1].pc = "pending" /\ handlers[q1].op = "log_activity"
        /\ handlers[q2].pc = "pending" /\ handlers[q2].op = "analyze_daily_patterns"
        /\ handlers[q1].patient_id = handlers[r].patient_id
        /\ handlers[q2].patient_id = handlers[r].patient_id
        /\ activity_patterns[handlers[r].patient_id] # <<>>

\* a service call for the given patient starts (and completes) in this step
IsCallFor(p) ==
    \/ gps_call = NoCall /\ gps_call' # NoCall /\ gps_call'.patient_id = p
    \/ fall_call = NoCall /\ fall_call' # NoCall /\ fall_call'.patient_id = p
    \/ act_call = NoCall /\ act_call' # NoCall /\ act_call'.patient_id = p

\* what check_location would answer for a patient at a fix
Classification(q, lat, t) ==
    LET scan == ScanZones(safe_zones[q], 1, <<>>, lat, MeridianLon, t)
    IN  [inside_safe_zone |-> scan.inside_safe_zone,
         active_zones |-> scan.active_zones,
         alert_triggered |-> AlertNeeded(scan)]

BaselineOf(q) ==
    IF q \in DOMAIN baseline_patterns THEN <<baseline_patterns[q]>> ELSE <<>>

\* C17: patients are independent: no create_safe_zone, check_location,
\* log_activity, set_baseline, analyze_daily_patterns or
\* analyze_accelerometer_data call for one patient changes another patient's
\* safe zones, location history, activity log or baseline, nor what
\* check_location or analyze_daily_patterns would answer for the other.
C17_PatientsIndependent ==
    [][\A p \in Patients : IsCallFor(p) =>
          \A q \in Patients \ {p} :
              /\ safe_zones'[q] = safe_zones[q]
              /\ location_history'[q] = location_history[q]
              /\ activity_patterns'[q] = activity_patterns[q]
              /\ BaselineOf(q)' = BaselineOf(q)
              /\ \A lat \in EngineFixLats :
                    Classification(q, lat, T1000)' = Classification(q, lat, T1000)
              /\ \A d \in {1, BaselineDays} : Analysis(q, d)' = Analysis(q, d)
    ]_vars

\* C17 witness: a baseline was just set for one patient while the other has
\* a zone, a recorded fix and a logged event of their own, and no baseline
C17_Witness ==
    \E q \in Patients :
        /\ act_call.op = "set_baseline"
        /\ act_call.patient_id # q
        /\ act_call.patient_id \in DOMAIN baseline_patterns
        /\ q \notin DOMAIN baseline_patterns
        /\ safe_zones[q] # <<>>
        /\ location_history[q] # <<>>
        /\ activity_patterns[q] # <<>>

============================================================================
